---- MODULE Spec2Model ----
(***************************************************************************)
(* Model of the elevate simulation core: Person, Floor, Elevator,          *)
(* Building and the two ElevatorController implementations                 *)
(* (NearestController, RandomController).                                  *)
(*                                                                         *)
(* Floor and elevator indices are the usize indices of the source          *)
(* (0-based); the Vec at index i is element i + 1 of the sequence.         *)
(* Every Person carries a ghost field id (its creation number) so that     *)
(* identity can be followed across containers.                             *)
(***************************************************************************)
EXTENDS Integers, Sequences, FiniteSets, TLC

\* ---- bounds of the model ------------------------------------------------
NumFloors == 3
NumElevators == 1
MaxPeople == 3
MaxPeopleRandom == 2
MaxArrivals == 2
MaxWait == 3
MaxCapacity == 2
FnFloors == 9
FnOnboard == 3
FnWaitFloors == 5
FnOnFloor == 4
MaxIncrement == 24
MaxEnergy == 2
MaxTicks == 50
FnPOutSteps == 2
FnPOutPeople == 3
FnAlighted == 2
FnGrowFloors == 4
FnGrowElevators == 2
LivePeople == 2
LiveMaxWait == 32

\* ---- constants of the source ----------------------------------------------
\* number of trials of the Binomial tip distribution
DST_TIP_TRIALS == 100

VARIABLES floors, elevators, pc, next_id, policy, floors_to, p_rational,
          elevator_decisions, ret, avg_wait_time, wait_time_denom,
          tot_tips, avg_energy, tips_generated, tips_collected, time_step,
          controller_num_floors

vars == <<floors, elevators, pc, next_id, policy, floors_to, p_rational,
          elevator_decisions, ret, avg_wait_time, wait_time_denom,
          tot_tips, avg_energy, tips_generated, tips_collected, time_step,
          controller_num_floors>>

\* ---- small helpers -------------------------------------------------------
\* the if/else usize distance of elevator.rs:106-110 and floors.rs:74-78
Dist(a, b) == IF a > b THEN a - b ELSE b - a

\* usize subtraction; a result below zero is the underflow marker -1
UsizeSub(a, b) == IF a >= b THEN a - b ELSE -1

None == <<>>
Some(v) == <<v>>
Unwrap(o) == o[1]

NoRet == [op |-> "none", arg |-> 0, val |-> <<0, 0>>]

\* ---- f64 values ------------------------------------------------------------
\* an f64 is a fraction num/den in lowest terms (kind "num"), NaN or infinity;
\* the values of the model are non-negative
RECURSIVE GCD(_, _)
GCD(a, b) == IF b = 0 THEN a ELSE GCD(b, a % b)

F64(num, den) ==
    LET g == GCD(num, den)
    IN [kind |-> "num", num |-> num \div g, den |-> den \div g]

F64Zero == F64(0, 1)
F64NaN == [kind |-> "nan", num |-> 0, den |-> 1]
F64Inf == [kind |-> "inf", num |-> 0, den |-> 1]

\* usize as f64
F64FromUsize(n) == F64(n, 1)

F64Add(a, b) ==
    IF a.kind = "nan" \/ b.kind = "nan" THEN F64NaN
    ELSE IF a.kind = "inf" \/ b.kind = "inf" THEN F64Inf
    ELSE F64(a.num * b.den + b.num * a.den, a.den * b.den)

\* 0 * infinity is NaN
F64Mul(a, b) ==
    IF a.kind = "nan" \/ b.kind = "nan" THEN F64NaN
    ELSE IF a.kind = "inf" \/ b.kind = "inf"
      THEN IF (a.kind = "num" /\ a.num = 0) \/ (b.kind = "num" /\ b.num = 0)
             THEN F64NaN ELSE F64Inf
    ELSE F64(a.num * b.num, a.den * b.den)

\* a - b for numbers a >= b
F64Sub(a, b) ==
    IF a.kind = "nan" \/ b.kind = "nan" THEN F64NaN
    ELSE IF a.kind = "inf" THEN IF b.kind = "inf" THEN F64NaN ELSE F64Inf
    ELSE F64(a.num * b.den - b.num * a.den, a.den * b.den)

\* 0 / 0 and infinity / infinity are NaN, x / 0 is infinity for x > 0
F64Div(a, b) ==
    IF a.kind = "nan" \/ b.kind = "nan" THEN F64NaN
    ELSE IF a.kind = "inf" THEN IF b.kind = "inf" THEN F64NaN ELSE F64Inf
    ELSE IF b.kind = "inf" THEN F64Zero
    ELSE IF b.num = 0 THEN IF a.num = 0 THEN F64NaN ELSE F64Inf
    ELSE F64(a.num * b.den, a.den * b.num)

\* ---- Person --------------------------------------------------------------
\* the probability 0.05 that a person of the building leaves during a step
P_OUT == F64(1, 20)

PersonFrom(p_out, id, floor_to) ==
    [id |-> id, floor_on |-> 0, floor_to |-> floor_to,
     is_leaving |-> FALSE, wait_time |-> 0, p_out |-> p_out]

\* mutant: the draw is made again for a person who is already leaving
gen_is_leaving_resampled(pers, sample) ==
    IF sample THEN [pers EXCEPT !.floor_to = 0, !.is_leaving = TRUE]
    ELSE [pers EXCEPT !.is_leaving = FALSE]

gen_is_leaving(pers, sample) ==
    IF pers.is_leaving THEN pers
    ELSE IF sample THEN [pers EXCEPT !.floor_to = 0, !.is_leaving = TRUE]
    ELSE pers

increment_wait_time(pers) == [pers EXCEPT !.wait_time = pers.wait_time + 1]

reset_wait_time(pers) == [pers EXCEPT !.wait_time = 0]

\* ---- People (Vec<Person>) ------------------------------------------------
\* tippers are the people whose gen_tip draw is true
gen_num_tips(people, tippers) ==
    Cardinality({ k \in 1..Len(people) : people[k].id \in tippers })

get_dest_floors(people) == [k \in 1..Len(people) |-> people[k].floor_to]

get_num_people(people) == Len(people)

are_people_going_to_floor(people, floor_index) ==
    \E k \in 1..Len(people) : people[k].floor_to = floor_index

are_people_waiting(people) ==
    \E k \in 1..Len(people) : people[k].floor_on # people[k].floor_to

RECURSIVE get_aggregate_wait_time(_)
get_aggregate_wait_time(people) ==
    IF Len(people) = 0 THEN 0
    ELSE people[1].wait_time + get_aggregate_wait_time(Tail(people))

VecIncrementWaitTimes(people) ==
    [k \in 1..Len(people) |-> increment_wait_time(people[k])]

\* mutant: the wait counters are not reset
VecResetWaitTimesKept(people) == people

VecResetWaitTimes(people) ==
    [k \in 1..Len(people) |-> reset_wait_time(people[k])]

\* ---- Elevator ------------------------------------------------------------
\* the energy parameters of the example of Building::from: 5.0, 2.5 and 0.5
EnergyUp == F64(5, 1)
EnergyDown == F64(5, 2)
EnergyCoef == F64(1, 2)

ElevatorFrom(capacity, energy_up, energy_down, energy_coef) ==
    [floor_on |-> 0, moving_up |-> FALSE, stopped |-> TRUE,
     people |-> <<>>, capacity |-> capacity,
     energy_up |-> energy_up, energy_down |-> energy_down,
     energy_coef |-> energy_coef]

\* mutant: the passengers are not counted
get_energy_spent_unloaded(e) ==
    IF e.stopped THEN F64Zero
    ELSE IF e.moving_up THEN e.energy_up
    ELSE e.energy_down

get_energy_spent(e) ==
    IF e.stopped THEN F64Zero
    ELSE IF e.moving_up
      THEN F64Add(e.energy_up, F64Mul(e.energy_coef, F64FromUsize(Len(e.people))))
    ELSE F64Add(e.energy_down, F64Mul(e.energy_coef, F64FromUsize(Len(e.people))))

\* free capacity of an elevator, the counterpart of Floor::get_free_capacity
ElevatorFreeCapacity(e) == UsizeSub(e.capacity, get_num_people(e.people))

\* direction from comparing the target floor to the current floor
update_direction(e, floor_to) ==
    IF floor_to > e.floor_on
      THEN [e EXCEPT !.stopped = FALSE, !.moving_up = TRUE]
    ELSE IF floor_to < e.floor_on
      THEN [e EXCEPT !.stopped = FALSE, !.moving_up = FALSE]
    ELSE [e EXCEPT !.stopped = TRUE]

\* mutants: the direction test is inverted; the passengers are not moved
update_floor_reversed(e) ==
    IF e.stopped THEN e
    ELSE LET new_floor == IF ~e.moving_up THEN e.floor_on + 1
                          ELSE UsizeSub(e.floor_on, 1)
         IN [e EXCEPT !.floor_on = new_floor,
                      !.people = [k \in 1..Len(e.people) |->
                                    [e.people[k] EXCEPT !.floor_on = new_floor]]]

update_floor_people_left(e) ==
    IF e.stopped THEN e
    ELSE [e EXCEPT !.floor_on = IF e.moving_up THEN e.floor_on + 1
                                ELSE UsizeSub(e.floor_on, 1)]

update_floor(e) ==
    IF e.stopped THEN e
    ELSE LET new_floor == IF e.moving_up THEN e.floor_on + 1
                          ELSE UsizeSub(e.floor_on, 1)
         IN [e EXCEPT !.floor_on = new_floor,
                      !.people = [k \in 1..Len(e.people) |->
                                    [e.people[k] EXCEPT !.floor_on = new_floor]]]

\* mutants of the replacement test: an equal distance also replaces; the
\* "none assigned yet" case is forgotten
DestReplacesOnEqual(min_dest_floor_dist, dest_floor_dist) ==
    min_dest_floor_dist = 0 \/ dest_floor_dist <= min_dest_floor_dist

DestReplacesNoSentinel(min_dest_floor_dist, dest_floor_dist) ==
    dest_floor_dist < min_dest_floor_dist

\* the replacement test of the scan: a minimum of 0 is "none assigned yet"
DestReplaces(min_dest_floor_dist, dest_floor_dist) ==
    min_dest_floor_dist = 0 \/ dest_floor_dist < min_dest_floor_dist

RECURSIVE NearestDestLoop(_, _, _, _, _)
NearestDestLoop(dest_floors, floor_index, k, nearest_dest_floor, min_dest_floor_dist) ==
    IF k > Len(dest_floors) THEN <<nearest_dest_floor, min_dest_floor_dist>>
    ELSE LET dest_floor_dist == Dist(floor_index, dest_floors[k])
         IN IF DestReplaces(min_dest_floor_dist, dest_floor_dist)
              THEN NearestDestLoop(dest_floors, floor_index, k + 1,
                                   dest_floors[k], dest_floor_dist)
              ELSE NearestDestLoop(dest_floors, floor_index, k + 1,
                                   nearest_dest_floor, min_dest_floor_dist)

get_nearest_dest_floor(e) ==
    LET dest_floors == get_dest_floors(e.people)
    IN IF Len(dest_floors) = 0 THEN <<0, 0>>
       ELSE NearestDestLoop(dest_floors, e.floor_on, 1, 0, 0)

\* result: [left |-> people kept onboard, out |-> people leaving], both in order
\* mutant: the people leaving stay onboard as well
flush_people_leaving_elevator_copied(e) ==
    IF ~e.stopped THEN [left |-> e.people, out |-> <<>>]
    ELSE [left |-> e.people,
          out  |-> SelectSeq(e.people, LAMBDA p : p.floor_on = p.floor_to)]

\* mutant: the stopped test is forgotten
flush_people_leaving_elevator_moving(e) ==
    [left |-> SelectSeq(e.people, LAMBDA p : p.floor_on # p.floor_to),
     out  |-> SelectSeq(e.people, LAMBDA p : p.floor_on = p.floor_to)]

flush_people_leaving_elevator(e) ==
    IF ~e.stopped THEN [left |-> e.people, out |-> <<>>]
    ELSE [left |-> SelectSeq(e.people, LAMBDA p : p.floor_on # p.floor_to),
          out  |-> SelectSeq(e.people, LAMBDA p : p.floor_on = p.floor_to)]

ElevatorExtend(e, iter) == [e EXCEPT !.people = e.people \o iter]

\* ---- Floor ---------------------------------------------------------------
FloorNew(capacity) == [people |-> <<>>, capacity |-> capacity]

RECURSIVE FlushEnteringLoop(_, _, _, _, _)
FlushEnteringLoop(people, k, left, out, free_elevator_capacity) ==
    IF k > Len(people) THEN [left |-> left, out |-> out]
    ELSE IF Len(out) = free_elevator_capacity
      THEN [left |-> left \o SubSeq(people, k, Len(people)), out |-> out]
    ELSE IF people[k].floor_on = people[k].floor_to
      THEN FlushEnteringLoop(people, k + 1, Append(left, people[k]), out,
                             free_elevator_capacity)
    ELSE FlushEnteringLoop(people, k + 1, left, Append(out, people[k]),
                           free_elevator_capacity)

\* mutants: the cap is never reached; the cap is one too high
flush_people_entering_elevator_uncapped(floor, free_elevator_capacity) ==
    FlushEnteringLoop(floor.people, 1, <<>>, <<>>, -1)

flush_people_entering_elevator_one_more(floor, free_elevator_capacity) ==
    FlushEnteringLoop(floor.people, 1, <<>>, <<>>, free_elevator_capacity + 1)

\* mutant: nobody is let in
flush_people_entering_elevator_closed(floor, free_elevator_capacity) ==
    FlushEnteringLoop(floor.people, 1, <<>>, <<>>, 0)

flush_people_entering_elevator(floor, free_elevator_capacity) ==
    FlushEnteringLoop(floor.people, 1, <<>>, <<>>, free_elevator_capacity)

\* the product of 1 - past_p_out over the p_out values pushed so far
RECURSIVE InversePOuts(_, _)
InversePOuts(past_p_outs, k) ==
    IF k = 0 THEN F64FromUsize(1)
    ELSE F64Mul(InversePOuts(past_p_outs, k - 1),
                F64Sub(F64FromUsize(1), past_p_outs[k]))

\* the loop of get_p_out from person k on
RECURSIVE POutLoop(_, _, _)
POutLoop(people, k, p_out) ==
    IF k > Len(people) THEN p_out
    ELSE LET past_p_outs == [j \in 1..(k - 1) |-> people[j].p_out]
             tmp_p_out == F64Mul(people[k].p_out, InversePOuts(past_p_outs, k - 1))
         IN POutLoop(people, k + 1, F64Add(p_out, tmp_p_out))

get_p_out(floor) ==
    IF Len(floor.people) = 0 THEN F64Zero
    ELSE POutLoop(floor.people, 1, F64Zero)

\* mutant: only the first person who is leaving is removed
flush_people_leaving_floor_first(floor) ==
    LET leaving == { k \in 1..Len(floor.people) : floor.people[k].is_leaving }
        first == IF leaving = {} THEN 0
                 ELSE CHOOSE k \in leaving : \A j \in leaving : k <= j
    IN [left |-> [k \in 1..(Len(floor.people) - (IF first = 0 THEN 0 ELSE 1)) |->
                     IF first = 0 \/ k < first THEN floor.people[k]
                     ELSE floor.people[k + 1]],
        out  |-> IF first = 0 THEN <<>> ELSE <<floor.people[first]>>]

flush_people_leaving_floor(floor) ==
    [left |-> SelectSeq(floor.people, LAMBDA p : ~p.is_leaving),
     out  |-> SelectSeq(floor.people, LAMBDA p : p.is_leaving)]

\* mutant: the capacity test is off by one
AtCapacityOffByOne(num_people, capacity) == num_people = capacity + 1

\* the capacity test made before each push
AtCapacity(num_people, capacity) == num_people = capacity

RECURSIVE FloorExtendLoop(_, _, _, _)
FloorExtendLoop(people, capacity, iter, k) ==
    IF k > Len(iter) THEN people
    ELSE IF AtCapacity(get_num_people(people), capacity) THEN people
    ELSE FloorExtendLoop(Append(people, iter[k]), capacity, iter, k + 1)

FloorExtend(floor, iter) ==
    [floor EXCEPT !.people = FloorExtendLoop(floor.people, floor.capacity, iter, 1)]

\* mutant: the people waiting for an elevator are not skipped
FloorGenPeopleLeavingAll(floor, leavers) ==
    [floor EXCEPT !.people = [k \in 1..Len(floor.people) |->
        gen_is_leaving(floor.people[k], floor.people[k].id \in leavers)]]

FloorGenPeopleLeaving(floor, leavers) ==
    [floor EXCEPT !.people = [k \in 1..Len(floor.people) |->
        IF floor.people[k].floor_on # floor.people[k].floor_to
          THEN floor.people[k]
          ELSE gen_is_leaving(floor.people[k], floor.people[k].id \in leavers)]]

FloorIncrementWaitTimes(floor) ==
    [floor EXCEPT !.people = [k \in 1..Len(floor.people) |->
        IF floor.people[k].floor_on = floor.people[k].floor_to
          THEN floor.people[k]
          ELSE increment_wait_time(floor.people[k])]]

ElevatorIncrementWaitTimes(e) ==
    [e EXCEPT !.people = VecIncrementWaitTimes(e.people)]

\* ---- Floors (Vec<Floor>) -------------------------------------------------
are_people_waiting_on_floor(fls, floor_index) ==
    are_people_waiting(fls[floor_index + 1].people)

\* the replacement test of the scan: a minimum of 0 is "none assigned yet"
WaitReplaces(min_wait_floor_dist, wait_floor_dist) ==
    min_wait_floor_dist = 0 \/ wait_floor_dist < min_wait_floor_dist

RECURSIVE NearestWaitLoop(_, _, _, _, _)
NearestWaitLoop(fls, floor_on, i, nearest_wait_floor, min_wait_floor_dist) ==
    IF i >= Len(fls) THEN <<nearest_wait_floor, min_wait_floor_dist>>
    ELSE IF ~are_people_waiting(fls[i + 1].people)
      THEN NearestWaitLoop(fls, floor_on, i + 1, nearest_wait_floor,
                           min_wait_floor_dist)
    ELSE LET wait_floor_dist == Dist(floor_on, i)
         IN IF WaitReplaces(min_wait_floor_dist, wait_floor_dist)
              THEN NearestWaitLoop(fls, floor_on, i + 1, i, wait_floor_dist)
              ELSE NearestWaitLoop(fls, floor_on, i + 1, nearest_wait_floor,
                                   min_wait_floor_dist)

get_nearest_wait_floor(fls, floor_on) == NearestWaitLoop(fls, floor_on, 0, 0, 0)

\* mutant: each floor that can take the capacity is updated on its own
FloorsUpdateCapacitiesEach(fls, capacity) ==
    [i \in 1..Len(fls) |->
        IF capacity < get_num_people(fls[i].people) THEN fls[i]
        ELSE [fls[i] EXCEPT !.capacity = capacity]]

FloorsUpdateCapacities(fls, capacity) ==
    LET can_update_capacities ==
            \A i \in 1..Len(fls) : ~(capacity < get_num_people(fls[i].people))
    IN IF can_update_capacities
         THEN [i \in 1..Len(fls) |-> [fls[i] EXCEPT !.capacity = capacity]]
         ELSE fls

\* the loop of Elevators::get_energy_spent from elevator i on
RECURSIVE ElevatorsEnergyLoop(_, _, _)
ElevatorsEnergyLoop(elevs, i, energy_spent) ==
    IF i > Len(elevs) THEN energy_spent
    ELSE ElevatorsEnergyLoop(elevs, i + 1,
                             F64Add(energy_spent, get_energy_spent(elevs[i])))

ElevatorsGetEnergySpent(elevs) == ElevatorsEnergyLoop(elevs, 1, F64Zero)

ElevatorsUpdateCapacities(elevs, capacity) ==
    LET can_update_capacities ==
            \A i \in 1..Len(elevs) : ~(capacity < get_num_people(elevs[i].people))
    IN IF can_update_capacities
         THEN [i \in 1..Len(elevs) |-> [elevs[i] EXCEPT !.capacity = capacity]]
         ELSE elevs

FloorsIncrementWaitTimes(fls) ==
    [i \in 1..Len(fls) |-> FloorIncrementWaitTimes(fls[i])]

FloorsGenPeopleLeaving(fls, leavers) ==
    [i \in 1..Len(fls) |-> FloorGenPeopleLeaving(fls[i], leavers)]

ElevatorsIncrementWaitTimes(elevs) ==
    [i \in 1..Len(elevs) |-> ElevatorIncrementWaitTimes(elevs[i])]

\* Vec<Floor>::append_floor and Vec<Elevator>::append_elevator
append_floor(fls, capacity) == Append(fls, FloorNew(capacity))

append_elevator(elevs, capacity, energy_up, energy_down, energy_coef) ==
    Append(elevs, ElevatorFrom(capacity, energy_up, energy_down, energy_coef))

\* ---- Building ------------------------------------------------------------
\* one iteration of the loop of exchange_people_on_elevator, for elevator e
\* mutant: the people who left an elevator before are forgotten
AvgWaitTimeLatest(avg, denom, wait_times, num_people) ==
    IF num_people + denom = 0 THEN F64Zero
    ELSE F64Div(F64FromUsize(wait_times), F64FromUsize(num_people + denom))

\* mutant: the average is updated without the zero-denominator guard
AvgWaitTimeUnguarded(avg, denom, wait_times, num_people) ==
    F64Div(F64Add(F64FromUsize(wait_times), F64Mul(avg, F64FromUsize(denom))),
           F64Add(F64FromUsize(num_people), F64FromUsize(denom)))

\* the new avg_wait_time, from the people leaving an elevator
AvgWaitTime(avg, denom, wait_times, num_people) ==
    LET tmp_num == F64Add(F64FromUsize(wait_times), F64Mul(avg, F64FromUsize(denom)))
        tmp_denom == F64Add(F64FromUsize(num_people), F64FromUsize(denom))
    IN IF tmp_denom = F64Zero THEN F64Zero
       ELSE F64Div(tmp_num, tmp_denom)

\* one iteration of the loop of exchange_people_on_elevator, for elevator e;
\* avg and denom are avg_wait_time and wait_time_denom
ExchangeOne(fls, e, avg, denom) ==
    IF ~e.stopped THEN [floors |-> fls, elevator |-> e, avg |-> avg, denom |-> denom]
    ELSE LET floor_index == e.floor_on
             entering == flush_people_entering_elevator(fls[floor_index + 1],
                                                        ElevatorFreeCapacity(e))
             leaving == flush_people_leaving_elevator(e)
             people_leaving_floor == entering.out
             wait_times == get_aggregate_wait_time(leaving.out)
             num_people == get_num_people(leaving.out)
             people_leaving_elevator == VecResetWaitTimes(leaving.out)
             e1 == ElevatorExtend([e EXCEPT !.people = leaving.left],
                                  people_leaving_floor)
             f1 == FloorExtend([fls[floor_index + 1] EXCEPT !.people = entering.left],
                               people_leaving_elevator)
         IN [floors |-> [fls EXCEPT ![floor_index + 1] = f1], elevator |-> e1,
             avg |-> AvgWaitTime(avg, denom, wait_times, num_people),
             denom |-> denom + num_people]

RECURSIVE ExchangeLoop(_, _, _, _, _)
ExchangeLoop(fls, elevs, i, avg, denom) ==
    IF i > Len(elevs)
      THEN [floors |-> fls, elevators |-> elevs, avg |-> avg, denom |-> denom]
    ELSE LET r == ExchangeOne(fls, elevs[i], avg, denom)
         IN ExchangeLoop(r.floors, [elevs EXCEPT ![i] = r.elevator], i + 1,
                         r.avg, r.denom)

exchange_people_on_elevator(fls, elevs, avg, denom) ==
    ExchangeLoop(fls, elevs, 1, avg, denom)

\* mutant: the arrivals are put in front of the people of floor 0
gen_people_arriving_front(fls, first_id, dests) ==
    LET arrivals == [k \in 1..Len(dests) |-> PersonFrom(P_OUT, first_id + k - 1, dests[k])]
        extended == FloorExtend(fls[1], arrivals)
        added == Len(extended.people) - Len(fls[1].people)
    IN [fls EXCEPT ![1].people = SubSeq(arrivals, 1, added) \o fls[1].people]

gen_people_arriving(fls, first_id, dests) ==
    LET arrivals == [k \in 1..Len(dests) |-> PersonFrom(P_OUT, first_id + k - 1, dests[k])]
    IN [fls EXCEPT ![1] = FloorExtend(fls[1], arrivals)]

\* outcomes of one dst_tip.sample: the least and the greatest number of
\* successes
TipSamples == {0, DST_TIP_TRIALS}

\* samples[k] is the k-th draw from dst_tip
RECURSIVE gen_tip_value(_, _)
gen_tip_value(num_tips, samples) ==
    IF num_tips = 0 THEN 0
    ELSE gen_tip_value(num_tips - 1, samples) + samples[num_tips]

\* step is the time_step argument
update_average_energy(avg, step, energy_spent) ==
    LET tmp_num == F64Add(F64Mul(avg, F64FromUsize(step)), energy_spent)
        tmp_denom == F64FromUsize(step + 1)
    IN F64Div(tmp_num, tmp_denom)

\* mutant: the total is handed out and kept
collect_tips_kept(tips) == [tips |-> tips, tot_tips |-> tips]

\* the value returned and the new tot_tips
collect_tips(tips) == [tips |-> tips, tot_tips |-> 0]

\* mutant: the flush empties floor 0
flush_first_floor_all(fls) == [fls EXCEPT ![1].people = <<>>]

flush_first_floor(fls) ==
    [fls EXCEPT ![1].people = flush_people_leaving_floor(fls[1]).left]

\* the Vec<Person> returned by flush_first_floor
FlushFirstFloorOut(fls) == flush_people_leaving_floor(fls[1]).out

\* ---- NearestController ---------------------------------------------------
NearestDecision(fls, elevator) ==
    IF elevator.stopped
      THEN LET nd == get_nearest_dest_floor(elevator)
               nw == get_nearest_wait_floor(fls, elevator.floor_on)
           IN IF nd[2] # 0 THEN nd[1]
              ELSE IF nw[2] # 0 THEN nw[1]
              ELSE elevator.floor_on
    ELSE IF ~elevator.moving_up /\ elevator.floor_on = 0
      THEN elevator.floor_on
    ELSE IF elevator.moving_up /\ elevator.floor_on = Len(fls) - 1
      THEN elevator.floor_on
    ELSE IF are_people_going_to_floor(elevator.people, elevator.floor_on)
      THEN elevator.floor_on
    ELSE IF are_people_waiting_on_floor(fls, elevator.floor_on)
      THEN elevator.floor_on
    ELSE elevator.floor_on

NearestDecisions(fls, elevs) ==
    [i \in 1..Len(elevs) |-> NearestDecision(fls, elevs[i])]

ApplyDecisions(elevs, decisions) ==
    [i \in 1..Len(elevs) |->
        IF i <= Len(decisions)
          THEN update_floor(update_direction(elevs[i], decisions[i]))
          ELSE elevs[i]]

\* ---- RandomController ----------------------------------------------------
\* outcomes of dst_rational.sample for a probability given in hundredths
RationalSamples(p) == IF p <= 0 THEN {FALSE}
                      ELSE IF p >= 100 THEN {TRUE} ELSE BOOLEAN

RationalTarget(fls, elevator) ==
    IF elevator.stopped
      THEN LET nd == get_nearest_dest_floor(elevator)
               nw == get_nearest_wait_floor(fls, elevator.floor_on)
           IN IF nd[2] # 0 THEN nd[1]
              ELSE IF nw[2] # 0 THEN nw[1]
              ELSE elevator.floor_on
    ELSE elevator.floor_on

\* the draws made for one elevator: none when its destination is cached,
\* else the Bernoulli draw and, when that is false, the uniform draw
Draws(cache, i, p, num_floors) ==
    IF i <= Len(cache) /\ cache[i] # None
      THEN { [rational |-> FALSE, random |-> 0] }
      ELSE { [rational |-> TRUE, random |-> 0] : r \in RationalSamples(p) \cap {TRUE} }
           \cup
           { [rational |-> FALSE, random |-> t] :
                r \in RationalSamples(p) \cap {FALSE}, t \in 0..(num_floors - 1) }

\* mutant: a destination is drawn for every elevator, cached or not
update_floors_to_redrawn(cache, fls, elevs, draws) ==
    [i \in 1..Len(elevs) |->
        IF draws[i].rational THEN Some(RationalTarget(fls, elevs[i]))
        ELSE Some(draws[i].random)]

update_floors_to(cache, fls, elevs, draws) ==
    LET padded == [i \in 1..(IF Len(elevs) > Len(cache) THEN Len(elevs) ELSE Len(cache)) |->
                     IF i <= Len(cache) THEN cache[i] ELSE None]
    IN [i \in 1..Len(padded) |->
          IF i > Len(elevs) THEN padded[i]
          ELSE IF padded[i] # None THEN padded[i]
          ELSE IF draws[i].rational THEN Some(RationalTarget(fls, elevs[i]))
          ELSE Some(draws[i].random)]

clear_floors_to(cache, elevs) ==
    [i \in 1..Len(cache) |->
        IF i <= Len(elevs) /\ Unwrap(cache[i]) = elevs[i].floor_on
          THEN None ELSE cache[i]]

\* p_rational is kept in hundredths (1.0 is 100) and sums are exact
\* the upgradable flag of a RandomController
RandomUpgradable == TRUE

can_be_upgraded(p) == IF p >= 100 THEN FALSE ELSE RandomUpgradable

\* mutant: the ceiling is forgotten
upgrade_unbounded(p, incrementation) == p + incrementation

\* the new p_rational
upgrade(p, incrementation) ==
    LET new_p_rational == p + incrementation
    IN IF new_p_rational > 100 THEN 100 ELSE new_p_rational

\* ---- construction ----------------------------------------------------------
\* mutant: a rate of 0 is accepted
PoissonNewZero(lambda) == IF lambda < 0 THEN "Err" ELSE "Ok"

\* Poisson::new(lambda) is an error for a rate that is not positive, and
\* Bernoulli::new(p) for a probability (in hundredths) outside [0, 1]
PoissonNew(lambda) == IF lambda <= 0 THEN "Err" ELSE "Ok"

\* mutant: every probability is accepted
BernoulliNewLenient(p) == "Ok"

BernoulliNew(p) == IF p < 0 \/ p > 100 THEN "Err" ELSE "Ok"

\* Building::from; unwrap panics on the error of Poisson::new, after the
\* floors and the elevators were made
BuildingFrom(num_floors, num_elevators, p_in, capacity, energy_up, energy_down, energy_coef) ==
    LET fls == [i \in 1..num_floors |-> FloorNew(capacity)]
        elevs == [i \in 1..num_elevators |->
                    ElevatorFrom(capacity, energy_up, energy_down, energy_coef)]
    IN IF PoissonNew(p_in) = "Err" THEN [panic |-> TRUE]
       ELSE [panic |-> FALSE, floors |-> fls, elevators |-> elevs,
             avg_energy |-> F64Zero, avg_wait_time |-> F64Zero,
             wait_time_denom |-> 0, tot_tips |-> 0]

\* RandomController::from; unwrap panics on the error of Bernoulli::new
RandomControllerFrom(fls, elevs, p) ==
    IF BernoulliNew(p) = "Err" THEN [panic |-> TRUE]
    ELSE [panic |-> FALSE, num_floors |-> Len(fls),
          floors_to |-> [i \in 1..Len(elevs) |-> None],
          p_rational |-> p]

\* ---- the simulation: state after construction and one action per step ----
AllPeople ==
    UNION ({ {floors[i].people[k] : k \in 1..Len(floors[i].people)} : i \in 1..Len(floors) }
           \cup
           { {elevators[i].people[k] : k \in 1..Len(elevators[i].people)} : i \in 1..Len(elevators) })

Init ==
    /\ \E capacity \in 1..MaxCapacity :
          floors = [i \in 1..NumFloors |-> FloorNew(capacity)]
    /\ \E capacity \in 1..MaxCapacity :
          elevators = [i \in 1..NumElevators |->
                         ElevatorFrom(capacity, EnergyUp, EnergyDown, EnergyCoef)]
    /\ pc = "dispatch"
    /\ next_id = 1
    /\ \/ /\ policy = "nearest"
          /\ p_rational = 0
          /\ floors_to = <<>>
       \/ /\ policy = "random"
          /\ p_rational = 50
          /\ floors_to = [i \in 1..NumElevators |-> None]
    /\ elevator_decisions = <<>>
    /\ ret = NoRet
    /\ avg_wait_time = F64Zero
    /\ wait_time_denom = 0
    /\ tot_tips = 0
    /\ avg_energy = F64Zero
    /\ tips_generated = 0
    /\ tips_collected = 0
    /\ time_step = 0
    /\ controller_num_floors = IF policy = "random" THEN Len(floors) ELSE 0

\* the number of people ever created is bounded, per policy
PeopleBound == IF policy = "nearest" THEN MaxPeople ELSE MaxPeopleRandom

\* NearestController::update_elevators
NearestUpdateElevators ==
    /\ pc = "dispatch"
    /\ policy = "nearest"
    /\ LET decisions == NearestDecisions(floors, elevators)
       IN /\ elevator_decisions' = decisions
          /\ elevators' = ApplyDecisions(elevators, decisions)
    /\ pc' = "exchange"
    /\ UNCHANGED <<floors, next_id, policy, floors_to, p_rational, ret,
                   avg_wait_time, wait_time_denom,
                   tot_tips, avg_energy, tips_generated, tips_collected, time_step,
                   controller_num_floors>>

\* mutant: the uniform sampler is not rebuilt
SamplerFloorsKept(tracked, fls) == tracked

\* the number of floors the uniform sampler dst_to of update_floors_to draws
\* from: num_floors, set to the number of floors of the building first
SamplerFloors(tracked, fls) == IF Len(fls) # tracked THEN Len(fls) ELSE tracked

\* the draws RandomController::update_elevators may make in this state
RandomDraws ==
    { draws \in [1..Len(elevators) ->
                    [rational : BOOLEAN,
                     random : 0..(SamplerFloors(controller_num_floors, floors) - 1)]] :
         \A i \in 1..Len(elevators) :
            draws[i] \in Draws(floors_to, i, p_rational,
                               SamplerFloors(controller_num_floors, floors)) }

\* the body of RandomController::update_elevators, for the draws it makes
RandomControllerUpdateElevators(draws) ==
    LET cache == update_floors_to(floors_to, floors, elevators, draws)
        moved == ApplyDecisions(elevators,
                                [i \in 1..Len(cache) |-> Unwrap(cache[i])])
    IN /\ elevators' = moved
       /\ floors_to' = clear_floors_to(cache, moved)
       /\ controller_num_floors' = SamplerFloors(controller_num_floors, floors)

\* RandomController::update_elevators; the draws made are kept in
\* elevator_decisions
RandomUpdateElevators ==
    /\ pc = "dispatch"
    /\ policy = "random"
    /\ \E draws \in RandomDraws :
          /\ RandomControllerUpdateElevators(draws)
          /\ elevator_decisions' = draws
    /\ pc' = "exchange"
    /\ UNCHANGED <<floors, next_id, policy, p_rational, ret,
                   avg_wait_time, wait_time_denom,
                   tot_tips, avg_energy, tips_generated, tips_collected, time_step>>

\* Building::exchange_people_on_elevator
ExchangePeople ==
    /\ pc = "exchange"
    /\ LET r == exchange_people_on_elevator(floors, elevators,
                                            avg_wait_time, wait_time_denom)
       IN /\ floors' = r.floors
          /\ elevators' = r.elevators
          /\ avg_wait_time' = r.avg
          /\ wait_time_denom' = r.denom
    /\ pc' = "departures"
    /\ UNCHANGED <<next_id, policy, floors_to, p_rational, elevator_decisions, ret,
                   tot_tips, avg_energy, tips_generated, tips_collected, time_step,
                   controller_num_floors>>

\* Building::gen_people_leaving; leavers are the people whose dst_out draw is
\* true, or would be if it were made
GenPeopleLeaving ==
    /\ pc = "departures"
    /\ \E leavers \in SUBSET { p.id : p \in AllPeople } :
          floors' = FloorsGenPeopleLeaving(floors, leavers)
    /\ pc' = "flush"
    /\ UNCHANGED <<elevators, next_id, policy, floors_to, p_rational,
                   elevator_decisions, ret,
                   avg_wait_time, wait_time_denom,
                   tot_tips, avg_energy, tips_generated, tips_collected, time_step,
                   controller_num_floors>>

\* Building::flush_and_update_tips; tippers and samples are the draws
FlushAndUpdateTips ==
    /\ pc = "flush"
    /\ floors' = flush_first_floor(floors)
    /\ LET people_leaving_floor == FlushFirstFloorOut(floors)
       IN \E tippers \in SUBSET { people_leaving_floor[k].id :
                                    k \in 1..Len(people_leaving_floor) } :
             LET num_tips == gen_num_tips(people_leaving_floor, tippers)
             IN \E samples \in [1..num_tips -> TipSamples] :
                   LET tip_value == gen_tip_value(num_tips, samples)
                   IN /\ tot_tips' = tot_tips + tip_value
                      /\ tips_generated' = tips_generated + tip_value
    /\ pc' = "arrivals"
    /\ UNCHANGED <<elevators, next_id, policy, floors_to, p_rational,
                   elevator_decisions, ret,
                   avg_wait_time, wait_time_denom, avg_energy, tips_collected, time_step,
                   controller_num_floors>>

\* Building::gen_people_arriving; Len(dests) is the Poisson draw
GenPeopleArriving ==
    /\ pc = "arrivals"
    /\ \E n \in 0..MaxArrivals :
          /\ next_id + n - 1 <= PeopleBound
          /\ \E dests \in [1..n -> 0..(Len(floors) - 1)] :
                floors' = gen_people_arriving(floors, next_id, dests)
          /\ next_id' = next_id + n
    /\ pc' = "increment"
    /\ UNCHANGED <<elevators, policy, floors_to, p_rational, elevator_decisions, ret,
                   avg_wait_time, wait_time_denom,
                   tot_tips, avg_energy, tips_generated, tips_collected, time_step,
                   controller_num_floors>>

\* Building::increment_wait_times, followed by the step at pc value to, while
\* nobody has waited for bound ticks
IncrementWaitTimesWithin(bound, to) ==
    /\ pc = "increment"
    /\ \A p \in AllPeople : p.wait_time < bound
    /\ elevators' = ElevatorsIncrementWaitTimes(elevators)
    /\ floors' = FloorsIncrementWaitTimes(floors)
    /\ pc' = to
    /\ UNCHANGED <<next_id, policy, floors_to, p_rational, elevator_decisions, ret,
                   avg_wait_time, wait_time_denom,
                   tot_tips, avg_energy, tips_generated, tips_collected, time_step,
                   controller_num_floors>>

IncrementWaitTimesThen(to) == IncrementWaitTimesWithin(MaxWait, to)

\* Building::increment_wait_times, the last step of a tick
IncrementWaitTimes == IncrementWaitTimesThen("dispatch")

\* Floors::update_capacities on the building's floors, between two steps
UpdateFloorCapacities ==
    /\ pc # "fn"
    /\ \E capacity \in 0..MaxCapacity :
          floors' = FloorsUpdateCapacities(floors, capacity)
    /\ UNCHANGED <<elevators, pc, next_id, policy, floors_to, p_rational,
                   elevator_decisions, ret,
                   avg_wait_time, wait_time_denom,
                   tot_tips, avg_energy, tips_generated, tips_collected, time_step,
                   controller_num_floors>>

\* Elevators::update_capacities on the building's elevators, between two steps
UpdateElevatorCapacities ==
    /\ pc # "fn"
    /\ \E capacity \in 0..MaxCapacity :
          elevators' = ElevatorsUpdateCapacities(elevators, capacity)
    /\ UNCHANGED <<floors, pc, next_id, policy, floors_to, p_rational,
                   elevator_decisions, ret, avg_wait_time, wait_time_denom,
                   tot_tips, avg_energy, tips_generated, tips_collected, time_step,
                   controller_num_floors>>

\* Building::collect_tips, called between two steps
CollectTips ==
    /\ pc # "fn"
    /\ LET r == collect_tips(tot_tips)
       IN /\ tot_tips' = r.tot_tips
          /\ tips_collected' = tips_collected + r.tips
    /\ UNCHANGED <<floors, elevators, pc, next_id, policy, floors_to, p_rational,
                   elevator_decisions, ret, avg_wait_time, wait_time_denom,
                   avg_energy, tips_generated, time_step,
                   controller_num_floors>>

Next ==
    \/ NearestUpdateElevators
    \/ RandomUpdateElevators
    \/ ExchangePeople
    \/ GenPeopleLeaving
    \/ FlushAndUpdateTips
    \/ GenPeopleArriving
    \/ IncrementWaitTimes
    \/ UpdateFloorCapacities
    \/ UpdateElevatorCapacities
    \/ CollectTips

Spec == Init /\ [][Next]_vars

\* ---- a run from construction on, with the energy accounted ----------------
\* nothing is constructed yet
InitRun ==
    /\ pc = "new"
    /\ floors = <<>>
    /\ elevators = <<>>
    /\ next_id = 1
    /\ policy = "none"
    /\ p_rational = 0
    /\ floors_to = <<>>
    /\ elevator_decisions = <<>>
    /\ ret = NoRet
    /\ avg_wait_time = F64Zero
    /\ wait_time_denom = 0
    /\ tot_tips = 0
    /\ avg_energy = F64Zero
    /\ tips_generated = 0
    /\ tips_collected = 0
    /\ time_step = 0
    /\ controller_num_floors = 0

\* arrival rates of the run, in hundredths
RunRates == {0, 50}

\* Building::from for a building of one floor above the ground floor and one
\* elevator
RunBuildingFrom ==
    /\ pc = "new"
    /\ \E p_in \in RunRates, capacity \in 1..MaxCapacity :
          LET b == BuildingFrom(2, 1, p_in, capacity, EnergyUp, EnergyDown, EnergyCoef)
          IN IF b.panic
               THEN /\ pc' = "panic"
                    /\ ret' = [op |-> "building_from", arg |-> <<2, 1, p_in>>,
                               val |-> <<"panic">>]
                    /\ UNCHANGED <<floors, elevators, avg_wait_time,
                                   wait_time_denom, tot_tips, avg_energy>>
               ELSE /\ pc' = "built"
                    /\ ret' = [op |-> "building_from", arg |-> <<2, 1, p_in>>,
                               val |-> <<"ok">>]
                    /\ floors' = b.floors
                    /\ elevators' = b.elevators
                    /\ avg_wait_time' = b.avg_wait_time
                    /\ wait_time_denom' = b.wait_time_denom
                    /\ tot_tips' = b.tot_tips
                    /\ avg_energy' = b.avg_energy
    /\ UNCHANGED <<next_id, policy, floors_to, p_rational, elevator_decisions,
                   tips_generated, tips_collected, time_step,
                   controller_num_floors>>

\* NearestController::from, given the building
RunNearestControllerFrom ==
    /\ pc = "built"
    /\ policy' = "nearest"
    /\ pc' = "dispatch"
    /\ UNCHANGED <<floors, elevators, next_id, floors_to, p_rational,
                   elevator_decisions, ret, avg_wait_time, wait_time_denom,
                   tot_tips, avg_energy, tips_generated, tips_collected, time_step,
                   controller_num_floors>>

\* Building::increment_wait_times, followed by the energy accounting
RunIncrementWaitTimes == IncrementWaitTimesThen("energy")

\* Elevators::get_energy_spent and Building::update_average_energy at the end
\* of tick time_step, for MaxTicks ticks
UpdateAverageEnergy ==
    /\ pc = "energy"
    /\ time_step < MaxTicks
    /\ avg_energy' = update_average_energy(avg_energy, time_step,
                                           ElevatorsGetEnergySpent(elevators))
    /\ time_step' = time_step + 1
    /\ pc' = "dispatch"
    /\ UNCHANGED <<floors, elevators, next_id, policy, floors_to, p_rational,
                   elevator_decisions, ret, avg_wait_time, wait_time_denom,
                   tot_tips, tips_generated, tips_collected,
                   controller_num_floors>>

NextRun ==
    \/ RunBuildingFrom
    \/ RunNearestControllerFrom
    \/ NearestUpdateElevators
    \/ ExchangePeople
    \/ GenPeopleLeaving
    \/ FlushAndUpdateTips
    \/ GenPeopleArriving
    \/ RunIncrementWaitTimes
    \/ UpdateAverageEnergy

SpecRun == InitRun /\ [][NextRun]_vars

\* ---- ticks in which nobody arrives and nobody decides to leave ------------
\* a person in the building before a dispatch: on floor 0 resting or waiting
\* for any floor, on an upper floor resting or leaving for floor 0, or
\* onboard for any floor; where is a floor index or NumFloors for onboard
LivePerson(id, where, floor_on, floor_to) ==
    [PersonFrom(P_OUT, id, floor_to) EXCEPT
        !.floor_on = floor_on,
        !.is_leaving = (floor_to = 0 /\ (where = NumFloors \/ floor_on > 0)),
        !.wait_time = IF floor_on = floor_to /\ where < NumFloors THEN 0 ELSE 1]

\* a building of NumFloors floors and one elevator some ticks after its
\* construction, before a dispatch of its NearestController: the elevator is
\* on any floor, stopped or having moved there, and up to LivePeople people
\* are on the floors or onboard
InitLive ==
    /\ pc = "dispatch"
    /\ policy = "nearest" /\ p_rational = 0 /\ floors_to = <<>>
    /\ controller_num_floors = 0
    /\ elevator_decisions = <<>>
    /\ ret = NoRet
    /\ avg_wait_time = F64Zero /\ wait_time_denom = 0
    /\ tot_tips = 0 /\ tips_generated = 0 /\ tips_collected = 0
    /\ avg_energy = F64Zero /\ time_step = 0
    /\ \E n \in 0..LivePeople, f \in 0..(NumFloors - 1),
          stopped \in BOOLEAN, moving_up \in BOOLEAN,
          floor_capacity \in 0..MaxCapacity, capacity \in 0..MaxCapacity :
         \E where \in [1..n -> 0..NumFloors], dests \in [1..n -> 0..(NumFloors - 1)] :
            LET at(k) == IF where[k] = NumFloors THEN f ELSE where[k]
                pers(k) == LivePerson(k, where[k], at(k), dests[k])
                held(w) == SelectSeq([k \in 1..n |-> pers(k)],
                                     LAMBDA p : where[p.id] = w)
            IN /\ \A k \in 1..n :
                     \* people leave an upper floor for floor 0 only, and the
                     \* exchange of a stopped elevator took off everybody
                     \* bound for its floor
                     /\ (where[k] \in 1..(NumFloors - 1) /\ dests[k] # where[k])
                           => dests[k] = 0
                     /\ (where[k] = NumFloors /\ stopped) => dests[k] # f
               /\ \A w \in 0..(NumFloors - 1) : Len(held(w)) <= floor_capacity
               /\ Len(held(NumFloors)) <= capacity
               /\ (~stopped /\ moving_up) => f > 0
               /\ (~stopped /\ ~moving_up) => f < NumFloors - 1
               /\ next_id = n + 1
               /\ floors = [i \in 1..NumFloors |->
                              [capacity |-> floor_capacity, people |-> held(i - 1)]]
               /\ elevators = << [ElevatorFrom(capacity, EnergyUp, EnergyDown,
                                               EnergyCoef)
                                    EXCEPT !.floor_on = f, !.stopped = stopped,
                                           !.moving_up = moving_up,
                                           !.people = held(NumFloors)] >>

\* Building::gen_people_leaving when every dst_out draw is false
NoPeopleLeaving ==
    /\ pc = "departures"
    /\ floors' = FloorsGenPeopleLeaving(floors, {})
    /\ pc' = "flush"
    /\ UNCHANGED <<elevators, next_id, policy, floors_to, p_rational,
                   elevator_decisions, ret,
                   avg_wait_time, wait_time_denom,
                   tot_tips, avg_energy, tips_generated, tips_collected, time_step,
                   controller_num_floors>>

\* Building::gen_people_arriving when the Poisson draw is 0
NoPeopleArriving ==
    /\ pc = "arrivals"
    /\ floors' = gen_people_arriving(floors, next_id, <<>>)
    /\ pc' = "increment"
    /\ UNCHANGED <<elevators, next_id, policy, floors_to, p_rational,
                   elevator_decisions, ret,
                   avg_wait_time, wait_time_denom,
                   tot_tips, avg_energy, tips_generated, tips_collected, time_step,
                   controller_num_floors>>

\* Building::increment_wait_times, the last step of a tick
LiveIncrementWaitTimes == IncrementWaitTimesWithin(LiveMaxWait, "dispatch")

NextLive ==
    \/ NearestUpdateElevators
    \/ ExchangePeople
    \/ NoPeopleLeaving
    \/ FlushAndUpdateTips
    \/ NoPeopleArriving
    \/ LiveIncrementWaitTimes

\* a step of NextLive moves pc; the exchange step is always possible
LiveStep ==
    \/ pc = "exchange" /\ pc' = "departures"
    \/ pc # "exchange" /\ NextLive

\* the driver keeps running ticks
SpecLive == InitLive /\ [][NextLive]_vars /\ WF_pc(LiveStep)

\* ---- single operations applied to arbitrary inputs -----------------------
FnWaiting(i, n) == [id |-> i + 1, floor_on |-> i, floor_to |-> (i + 1) % n,
                    is_leaving |-> FALSE, wait_time |-> 0, p_out |-> P_OUT]

FnResting(i) == [id |-> i + 1, floor_on |-> i, floor_to |-> i,
                 is_leaving |-> FALSE, wait_time |-> 0, p_out |-> P_OUT]

\* a passenger standing on or riding at floor f, bound for floor t
FnPerson(id, f, t) == [id |-> id, floor_on |-> f, floor_to |-> t,
                       is_leaving |-> FALSE, wait_time |-> 0, p_out |-> P_OUT]

\* a new elevator of capacity FnOnboard
FnElevator == ElevatorFrom(FnOnboard, EnergyUp, EnergyDown, EnergyCoef)

\* energy parameters: the halves up to MaxEnergy / 2
FnEnergies == { F64(k, 2) : k \in 0..MaxEnergy }

\* leave probabilities: the multiples of 1 / FnPOutSteps in [0, 1]
FnPOuts == { F64(k, FnPOutSteps) : k \in 0..FnPOutSteps }

InitFn ==
    /\ next_id = 1
    /\ elevator_decisions = <<>>
    /\ ret = NoRet
    /\ tot_tips = 0
    /\ avg_energy = F64Zero
    /\ tips_generated = 0
    /\ tips_collected = 0
    /\ time_step = 0
    /\ \/ \* one elevator on its way down, anywhere in a tall building, with
          \* any passengers
          /\ pc = "fn" /\ policy = "nearest" /\ p_rational = 0 /\ floors_to = <<>>
          /\ floors = [i \in 1..FnFloors |-> FloorNew(FnOnboard)]
          /\ \E f \in 0..(FnFloors - 1), n \in 0..FnOnboard :
               \E dests \in [1..n -> 0..(FnFloors - 1)] :
                  elevators = << [FnElevator EXCEPT
                                    !.floor_on = f, !.moving_up = FALSE,
                                    !.stopped = FALSE,
                                    !.people = [k \in 1..n |-> FnPerson(k, f, dests[k])]] >>
       \/ \* one elevator anywhere, stopped or moving either way, with any
          \* passengers
          /\ pc = "fn" /\ policy = "nearest" /\ p_rational = 0 /\ floors_to = <<>>
          /\ floors = [i \in 1..NumFloors |-> FloorNew(FnOnboard)]
          /\ \E f \in 0..(NumFloors - 1), n \in 0..FnOnboard,
                stopped \in BOOLEAN, moving_up \in BOOLEAN :
               \E dests \in [1..n -> 0..(NumFloors - 1)] :
                  elevators = << [FnElevator EXCEPT
                                    !.floor_on = f, !.moving_up = moving_up,
                                    !.stopped = stopped,
                                    !.people = [k \in 1..n |-> FnPerson(k, f, dests[k])]] >>
       \/ \* floors alone, each empty or with one resting or one waiting person
          /\ pc = "fn" /\ policy = "nearest" /\ p_rational = 0 /\ floors_to = <<>>
          /\ elevators = <<>>
          /\ \E kind \in [1..FnWaitFloors -> {"empty", "resting", "waiting"}] :
               floors = [i \in 1..FnWaitFloors |->
                           [capacity |-> 1,
                            people |-> IF kind[i] = "empty" THEN <<>>
                                       ELSE IF kind[i] = "resting"
                                         THEN <<FnResting(i - 1)>>
                                       ELSE <<FnWaiting(i - 1, FnWaitFloors)>>]]
       \/ \* two floors alone, floor 0 with any mix of resting and waiting people
          /\ pc = "fn" /\ policy = "nearest" /\ p_rational = 0 /\ floors_to = <<>>
          /\ elevators = <<>>
          /\ \E n \in 0..FnOnFloor : \E dests \in [1..n -> 0..1] :
               floors = << [capacity |-> FnOnFloor,
                            people |-> [k \in 1..n |-> FnPerson(k, 0, dests[k])]],
                           FloorNew(FnOnFloor) >>
       \/ \* two stopped elevators at floor 0 with passengers bound for floor 1
          /\ pc = "fn" /\ policy = "nearest" /\ p_rational = 0 /\ floors_to = <<>>
          /\ floors = [i \in 1..2 |-> FloorNew(FnOnboard)]
          /\ \E n \in [1..2 -> 0..FnOnboard] :
               elevators = [i \in 1..2 |->
                              [FnElevator EXCEPT !.people =
                                  [k \in 1..n[i] |-> FnPerson(FnOnboard * (i - 1) + k, 0, 1)]]]
       \/ \* two floors alone, floor 0 with resting and waiting people of any
          \* p_out
          /\ pc = "fn" /\ policy = "nearest" /\ p_rational = 0 /\ floors_to = <<>>
          /\ elevators = <<>>
          /\ \E n \in 0..FnPOutPeople :
               \E dests \in [1..n -> 0..1], p_outs \in [1..n -> FnPOuts] :
                  floors = << [capacity |-> FnPOutPeople,
                               people |-> [k \in 1..n |->
                                  [FnPerson(k, 0, dests[k]) EXCEPT !.p_out = p_outs[k]]]],
                              FloorNew(FnPOutPeople) >>
       \/ \* floor 0 with resting, waiting and leaving people, floor 1 with a
          \* person who is leaving and a stopped elevator at floor 0 with a
          \* passenger for floor 1
          /\ pc = "fn" /\ policy = "nearest" /\ p_rational = 0 /\ floors_to = <<>>
          /\ elevators = << [FnElevator EXCEPT !.people =
                                <<FnPerson(FnOnboard + 2, 0, 1)>>] >>
          /\ \E n \in 0..FnOnboard :
               \E kind \in [1..n -> {"resting", "waiting", "leaving"}] :
                  floors = << [capacity |-> FnOnboard,
                               people |-> [k \in 1..n |->
                                  [FnPerson(k, 0, IF kind[k] = "waiting" THEN 1 ELSE 0)
                                     EXCEPT !.is_leaving = (kind[k] = "leaving")]]],
                              [capacity |-> FnOnboard,
                               people |-> << [FnPerson(FnOnboard + 1, 1, 0)
                                                EXCEPT !.is_leaving = TRUE] >>] >>
       \/ \* two elevators at floor 1 with any energy parameters: the first
          \* stopped or moving either way with any number of passengers, the
          \* second stopped or moving up with one passenger
          /\ pc = "fn" /\ policy = "nearest" /\ p_rational = 0 /\ floors_to = <<>>
          /\ floors = [i \in 1..NumFloors |-> FloorNew(FnOnboard)]
          /\ \E energy_up \in FnEnergies, energy_down \in FnEnergies,
                energy_coef \in FnEnergies,
                stopped \in [1..2 -> BOOLEAN], moving_up \in BOOLEAN,
                n \in 0..FnOnboard :
               elevators = [i \in 1..2 |->
                     [ElevatorFrom(FnOnboard, energy_up, energy_down, energy_coef)
                        EXCEPT !.floor_on = 1, !.stopped = stopped[i],
                               !.moving_up = IF i = 1 THEN moving_up ELSE TRUE,
                               !.people = [k \in 1..(IF i = 1 THEN n ELSE 1) |->
                                   FnPerson(FnOnboard * (i - 1) + k, 1, 0)]]]
       \/ \* a RandomController with any p_rational, on a new building
          /\ pc = "fn"
          /\ policy = "random"
          /\ p_rational \in { 5 * k : k \in 0..20 }
          /\ floors = [i \in 1..NumFloors |-> FloorNew(MaxCapacity)]
          /\ elevators = [i \in 1..NumElevators |->
                            ElevatorFrom(MaxCapacity, EnergyUp, EnergyDown, EnergyCoef)]
          /\ floors_to = [i \in 1..NumElevators |-> None]
       \/ \* nothing constructed yet
          /\ pc = "new"
          /\ policy = "none" /\ p_rational = 0 /\ floors_to = <<>>
          /\ floors = <<>>
          /\ elevators = <<>>
       \/ \* a stopped elevator at floor 1 of two floors, its passengers bound
          \* for either floor after any waits, and nobody or one person
          \* waiting on floor 1
          /\ pc = "exchange_fn" /\ policy = "nearest" /\ p_rational = 0
          /\ floors_to = <<>>
          /\ \E n \in 0..FnAlighted, w \in BOOLEAN :
               \E dests \in [1..n -> 0..1], waits \in [1..n -> 1..MaxWait] :
                  /\ elevators = << [FnElevator EXCEPT
                                       !.floor_on = 1,
                                       !.people = [k \in 1..n |->
                                          [FnPerson(k, 1, dests[k])
                                             EXCEPT !.wait_time = waits[k]]]] >>
                  /\ floors = << FloorNew(FnOnboard),
                                 [capacity |-> FnOnboard,
                                  people |-> IF w THEN <<FnPerson(FnOnboard + 1, 1, 0)>>
                                             ELSE <<>>] >>
       \/ \* a RandomController on a new building of two floors and one
          \* elevator, with nobody or one person waiting on floor 1; floors
          \* and elevators are appended to it between update_elevators calls
          /\ pc = "grow_fn"
          /\ policy = "random"
          /\ p_rational \in {0, 50, 100}
          /\ \E w \in BOOLEAN :
               floors = << FloorNew(MaxCapacity),
                           [capacity |-> MaxCapacity,
                            people |-> IF w THEN <<FnWaiting(1, 2)>> ELSE <<>>] >>
          /\ elevators = << ElevatorFrom(MaxCapacity, EnergyUp, EnergyDown,
                                         EnergyCoef) >>
          /\ floors_to = <<None>>
       \/ \* a RandomController on a tall building, its elevator stopped on any
          \* floor, with nobody or one person waiting on some floor; only
          \* update_elevators is called on it
          /\ pc = "random_fn"
          /\ policy = "random"
          /\ p_rational \in {0, 50, 100}
          /\ \E w \in 0..FnFloors :
               floors = [i \in 1..FnFloors |->
                           [capacity |-> 1,
                            people |-> IF i = w THEN <<FnWaiting(i - 1, FnFloors)>>
                                       ELSE <<>>]]
          /\ \E f \in 0..(FnFloors - 1) :
               elevators = << [FnElevator EXCEPT !.floor_on = f] >>
          /\ floors_to = <<None>>
    /\ \/ /\ pc # "exchange_fn"
          /\ avg_wait_time = F64Zero
          /\ wait_time_denom = 0
       \/ \* FnAlighted passengers have left an elevator before, after
          \* waits that sum to any number
          /\ pc = "exchange_fn"
          /\ \E denom \in 0..FnAlighted, sum \in 0..(FnAlighted * MaxWait) :
                /\ denom = 0 => sum = 0
                /\ wait_time_denom = denom
                /\ avg_wait_time = IF denom = 0 THEN F64Zero ELSE F64(sum, denom)
    /\ controller_num_floors = IF policy = "random" THEN Len(floors) ELSE 0

\* Elevator::get_nearest_dest_floor called on elevator i
CallGetNearestDestFloor ==
    /\ pc = "fn"
    /\ \E i \in 1..Len(elevators) :
          ret' = [op |-> "get_nearest_dest_floor", arg |-> i,
                  val |-> get_nearest_dest_floor(elevators[i])]
    /\ UNCHANGED <<floors, elevators, pc, next_id, policy, floors_to, p_rational,
                   elevator_decisions, avg_wait_time, wait_time_denom,
                   tot_tips, avg_energy, tips_generated, tips_collected, time_step,
                   controller_num_floors>>

\* Floors::get_nearest_wait_floor called with floor_on
CallGetNearestWaitFloor ==
    /\ pc = "fn"
    /\ elevators = <<>>
    /\ \E floor_on \in 0..(Len(floors) - 1) :
          ret' = [op |-> "get_nearest_wait_floor", arg |-> floor_on,
                  val |-> get_nearest_wait_floor(floors, floor_on)]
    /\ UNCHANGED <<floors, elevators, pc, next_id, policy, floors_to, p_rational,
                   elevator_decisions, avg_wait_time, wait_time_denom,
                   tot_tips, avg_energy, tips_generated, tips_collected, time_step,
                   controller_num_floors>>

\* Elevator::update_floor called on elevator i; the controllers call it right
\* after update_direction, so never downward at floor 0 nor upward at the top
CallUpdateFloor ==
    /\ pc = "fn"
    /\ \E i \in 1..Len(elevators) :
          LET e == elevators[i]
          IN /\ e.stopped \/ e.moving_up \/ e.floor_on > 0
             /\ e.stopped \/ ~e.moving_up \/ e.floor_on < Len(floors) - 1
             /\ elevators' = [elevators EXCEPT ![i] = update_floor(e)]
             /\ ret' = [op |-> "update_floor", arg |-> i,
                        val |-> <<update_floor(e).floor_on>>]
    /\ UNCHANGED <<floors, pc, next_id, policy, floors_to, p_rational,
                   elevator_decisions, avg_wait_time, wait_time_denom,
                   tot_tips, avg_energy, tips_generated, tips_collected, time_step,
                   controller_num_floors>>

\* Elevator::flush_people_leaving_elevator called on elevator i
CallFlushPeopleLeavingElevator ==
    /\ pc = "fn"
    /\ \E i \in 1..Len(elevators) :
          LET r == flush_people_leaving_elevator(elevators[i])
          IN /\ elevators' = [elevators EXCEPT ![i].people = r.left]
             /\ ret' = [op |-> "flush_people_leaving_elevator", arg |-> i,
                        val |-> r.out]
    /\ UNCHANGED <<floors, pc, next_id, policy, floors_to, p_rational,
                   elevator_decisions, avg_wait_time, wait_time_denom,
                   tot_tips, avg_energy, tips_generated, tips_collected, time_step,
                   controller_num_floors>>

\* Floor::flush_people_entering_elevator called on the floor with index
\* floor_index of a Vec<Floor>
CallFlushPeopleEnteringElevator ==
    /\ pc = "fn"
    /\ elevators = <<>>
    /\ \E floor_index \in 0..(Len(floors) - 1), free_elevator_capacity \in 0..FnOnFloor :
          LET r == flush_people_entering_elevator(floors[floor_index + 1],
                                                  free_elevator_capacity)
          IN /\ floors' = [floors EXCEPT ![floor_index + 1].people = r.left]
             /\ ret' = [op |-> "flush_people_entering_elevator",
                        arg |-> <<floor_index, free_elevator_capacity>>,
                        val |-> r.out]
    /\ UNCHANGED <<elevators, pc, next_id, policy, floors_to, p_rational,
                   elevator_decisions, avg_wait_time, wait_time_denom,
                   tot_tips, avg_energy, tips_generated, tips_collected, time_step,
                   controller_num_floors>>

\* Building::exchange_people_on_elevator
CallExchangePeopleOnElevator ==
    /\ pc \in {"fn", "exchange_fn"}
    /\ LET r == exchange_people_on_elevator(floors, elevators,
                                            avg_wait_time, wait_time_denom)
       IN /\ floors' = r.floors
          /\ elevators' = r.elevators
          /\ avg_wait_time' = r.avg
          /\ wait_time_denom' = r.denom
    /\ ret' = [op |-> "exchange_people_on_elevator", arg |-> 0, val |-> <<>>]
    /\ UNCHANGED <<pc, next_id, policy, floors_to, p_rational, elevator_decisions,
                   tot_tips, avg_energy, tips_generated, tips_collected, time_step,
                   controller_num_floors>>

\* Floors::update_capacities called on a Vec<Floor>
CallFloorsUpdateCapacities ==
    /\ pc = "fn"
    /\ elevators = <<>>
    /\ \E capacity \in 0..FnOnFloor :
          /\ floors' = FloorsUpdateCapacities(floors, capacity)
          /\ ret' = [op |-> "floors_update_capacities", arg |-> capacity, val |-> <<>>]
    /\ UNCHANGED <<elevators, pc, next_id, policy, floors_to, p_rational,
                   elevator_decisions, avg_wait_time, wait_time_denom,
                   tot_tips, avg_energy, tips_generated, tips_collected, time_step,
                   controller_num_floors>>

\* Elevators::update_capacities called on the elevators
CallElevatorsUpdateCapacities ==
    /\ pc = "fn"
    /\ elevators # <<>>
    /\ \E capacity \in 0..FnOnboard :
          /\ elevators' = ElevatorsUpdateCapacities(elevators, capacity)
          /\ ret' = [op |-> "elevators_update_capacities", arg |-> capacity,
                     val |-> <<>>]
    /\ UNCHANGED <<floors, pc, next_id, policy, floors_to, p_rational,
                   elevator_decisions, avg_wait_time, wait_time_denom,
                   tot_tips, avg_energy, tips_generated, tips_collected, time_step,
                   controller_num_floors>>

\* Elevator::get_energy_spent called on elevator i
CallGetEnergySpent ==
    /\ pc = "fn"
    /\ \E i \in 1..Len(elevators) :
          ret' = [op |-> "get_energy_spent", arg |-> i,
                  val |-> <<get_energy_spent(elevators[i])>>]
    /\ UNCHANGED <<floors, elevators, pc, next_id, policy, floors_to, p_rational,
                   elevator_decisions, avg_wait_time, wait_time_denom,
                   tot_tips, avg_energy, tips_generated, tips_collected, time_step,
                   controller_num_floors>>

\* Elevators::get_energy_spent called on the elevators
CallElevatorsGetEnergySpent ==
    /\ pc = "fn"
    /\ elevators # <<>>
    /\ ret' = [op |-> "elevators_get_energy_spent", arg |-> 0,
               val |-> <<ElevatorsGetEnergySpent(elevators)>>]
    /\ UNCHANGED <<floors, elevators, pc, next_id, policy, floors_to, p_rational,
                   elevator_decisions, avg_wait_time, wait_time_denom,
                   tot_tips, avg_energy, tips_generated, tips_collected, time_step,
                   controller_num_floors>>

\* Floor::get_p_out called on the floor with index floor_index of a
\* Vec<Floor>, for floors of at most FnPOutPeople people
CallGetPOut ==
    /\ pc = "fn"
    /\ elevators = <<>>
    /\ \E floor_index \in 0..(Len(floors) - 1) :
          /\ Len(floors[floor_index + 1].people) <= FnPOutPeople
          /\ ret' = [op |-> "get_p_out", arg |-> floor_index,
                     val |-> <<get_p_out(floors[floor_index + 1])>>]
    /\ UNCHANGED <<floors, elevators, pc, next_id, policy, floors_to, p_rational,
                   elevator_decisions, avg_wait_time, wait_time_denom,
                   tot_tips, avg_energy, tips_generated, tips_collected, time_step,
                   controller_num_floors>>

\* Floors::flush_first_floor called on the floors
CallFlushFirstFloor ==
    /\ pc = "fn"
    /\ floors' = flush_first_floor(floors)
    /\ ret' = [op |-> "flush_first_floor", arg |-> 0,
               val |-> FlushFirstFloorOut(floors)]
    /\ UNCHANGED <<elevators, pc, next_id, policy, floors_to, p_rational,
                   elevator_decisions, avg_wait_time, wait_time_denom,
                   tot_tips, avg_energy, tips_generated, tips_collected, time_step,
                   controller_num_floors>>

\* RandomController::update_elevators called on the controller
CallRandomUpdateElevators ==
    /\ pc \in {"random_fn", "grow_fn"}
    /\ policy = "random"
    /\ \E draws \in RandomDraws : RandomControllerUpdateElevators(draws)
    /\ ret' = [op |-> "update_elevators", arg |-> 0, val |-> <<>>]
    /\ UNCHANGED <<floors, pc, next_id, policy, p_rational, elevator_decisions,
                   avg_wait_time, wait_time_denom,
                   tot_tips, avg_energy, tips_generated, tips_collected, time_step>>

\* append_floor called on the floors of the building of a RandomController
CallAppendFloor ==
    /\ pc = "grow_fn"
    /\ Len(floors) < FnGrowFloors
    /\ floors' = append_floor(floors, MaxCapacity)
    /\ ret' = [op |-> "append_floor", arg |-> MaxCapacity, val |-> <<>>]
    /\ UNCHANGED <<elevators, pc, next_id, policy, floors_to, p_rational,
                   elevator_decisions, avg_wait_time, wait_time_denom,
                   tot_tips, avg_energy, tips_generated, tips_collected, time_step,
                   controller_num_floors>>

\* append_elevator called on the elevators of the building of a
\* RandomController
CallAppendElevator ==
    /\ pc = "grow_fn"
    /\ Len(elevators) < FnGrowElevators
    /\ elevators' = append_elevator(elevators, MaxCapacity, EnergyUp, EnergyDown,
                                    EnergyCoef)
    /\ ret' = [op |-> "append_elevator", arg |-> MaxCapacity, val |-> <<>>]
    /\ UNCHANGED <<floors, pc, next_id, policy, floors_to, p_rational,
                   elevator_decisions, avg_wait_time, wait_time_denom,
                   tot_tips, avg_energy, tips_generated, tips_collected, time_step,
                   controller_num_floors>>

\* RandomController::can_be_upgraded
CallCanBeUpgraded ==
    /\ pc = "fn"
    /\ policy = "random"
    /\ ret' = [op |-> "can_be_upgraded", arg |-> 0,
               val |-> <<can_be_upgraded(p_rational)>>]
    /\ UNCHANGED <<floors, elevators, pc, next_id, policy, floors_to, p_rational,
                   elevator_decisions, avg_wait_time, wait_time_denom,
                   tot_tips, avg_energy, tips_generated, tips_collected, time_step,
                   controller_num_floors>>

\* RandomController::upgrade, with incrementations that are multiples of
\* 0.05; p_rational is assigned before Bernoulli::new is unwrapped, which
\* panics on a probability below 0
CallUpgrade ==
    /\ pc = "fn"
    /\ policy = "random"
    /\ \E incrementation \in { 5 * k : k \in (0 - MaxIncrement)..MaxIncrement } :
          LET new_p_rational == upgrade(p_rational, incrementation)
          IN /\ p_rational' = new_p_rational
             /\ IF BernoulliNew(new_p_rational) = "Err"
                  THEN /\ pc' = "panic"
                       /\ ret' = [op |-> "upgrade_panic", arg |-> incrementation,
                                  val |-> <<p_rational, new_p_rational>>]
                  ELSE /\ pc' = pc
                       /\ ret' = [op |-> "upgrade", arg |-> incrementation,
                                  val |-> <<p_rational, new_p_rational>>]
    /\ UNCHANGED <<floors, elevators, next_id, policy, floors_to,
                   elevator_decisions, avg_wait_time, wait_time_denom,
                   tot_tips, avg_energy, tips_generated, tips_collected, time_step,
                   controller_num_floors>>

\* arrival rates offered to Building::from, in hundredths
FnRates == {0 - 50, 0, 50}

\* probabilities offered to RandomController::from, in hundredths
FnRationals == {0 - 5, 0, 50, 100, 105}

\* Building::from
CallBuildingFrom ==
    /\ pc = "new"
    /\ \E num_floors \in 2..NumFloors, num_elevators \in 1..NumElevators,
          p_in \in FnRates :
          LET b == BuildingFrom(num_floors, num_elevators, p_in, MaxCapacity,
                                EnergyUp, EnergyDown, EnergyCoef)
          IN IF b.panic
               THEN /\ pc' = "panic"
                    /\ ret' = [op |-> "building_from",
                               arg |-> <<num_floors, num_elevators, p_in>>,
                               val |-> <<"panic">>]
                    /\ UNCHANGED <<floors, elevators, avg_wait_time,
                                   wait_time_denom, tot_tips, avg_energy>>
               ELSE /\ pc' = "built"
                    /\ ret' = [op |-> "building_from",
                               arg |-> <<num_floors, num_elevators, p_in>>,
                               val |-> <<"ok">>]
                    /\ floors' = b.floors
                    /\ elevators' = b.elevators
                    /\ avg_wait_time' = b.avg_wait_time
                    /\ wait_time_denom' = b.wait_time_denom
                    /\ tot_tips' = b.tot_tips
                    /\ avg_energy' = b.avg_energy
    /\ UNCHANGED <<next_id, policy, floors_to, p_rational, elevator_decisions,
                   tips_generated, tips_collected, time_step,
                   controller_num_floors>>

\* RandomController::from, given the building made by Building::from
CallRandomControllerFrom ==
    /\ pc = "built"
    /\ \E p \in FnRationals :
          LET c == RandomControllerFrom(floors, elevators, p)
          IN IF c.panic
               THEN /\ pc' = "panic"
                    /\ ret' = [op |-> "random_controller_from", arg |-> p,
                               val |-> <<"panic">>]
                    /\ UNCHANGED <<policy, floors_to, p_rational, controller_num_floors>>
               ELSE /\ pc' = "fn"
                    /\ ret' = [op |-> "random_controller_from", arg |-> p,
                               val |-> <<"ok">>]
                    /\ policy' = "random"
                    /\ floors_to' = c.floors_to
                    /\ p_rational' = c.p_rational
                    /\ controller_num_floors' = c.num_floors
    /\ UNCHANGED <<floors, elevators, next_id, elevator_decisions,
                   avg_wait_time, wait_time_denom,
                   tot_tips, avg_energy, tips_generated, tips_collected, time_step>>

NextFn ==
    \/ CallGetNearestDestFloor
    \/ CallGetNearestWaitFloor
    \/ CallUpdateFloor
    \/ CallFlushPeopleLeavingElevator
    \/ CallFlushPeopleEnteringElevator
    \/ CallExchangePeopleOnElevator
    \/ CallFloorsUpdateCapacities
    \/ CallElevatorsUpdateCapacities
    \/ CallCanBeUpgraded
    \/ CallUpgrade
    \/ CallGetEnergySpent
    \/ CallElevatorsGetEnergySpent
    \/ CallGetPOut
    \/ CallFlushFirstFloor
    \/ CallRandomUpdateElevators
    \/ CallAppendFloor
    \/ CallAppendElevator
    \/ CallBuildingFrom
    \/ CallRandomControllerFrom

SpecFn == InitFn /\ [][NextFn]_vars

\* ---- properties -----------------------------------------------------------
\* floors (usize indices) that hold a waiting passenger
WaitFloors == { i \in 0..(Len(floors) - 1) : \E k \in 1..Len(floors[i + 1].people) :
                   floors[i + 1].people[k].floor_on # floors[i + 1].people[k].floor_to }

\* C3: get_nearest_wait_floor(f) returns (i, d) with a waiting passenger on
\* floor i, d = |i - f| and no floor with a waiting passenger closer than d,
\* floor f itself included (distance 0); (0, 0) when nobody waits anywhere.
C3_NearestWaitFloor ==
    ret.op = "get_nearest_wait_floor" =>
       IF WaitFloors = {} THEN ret.val = <<0, 0>>
       ELSE /\ ret.val[1] \in WaitFloors
            /\ ret.val[2] = Dist(ret.val[1], ret.arg)
            /\ \A j \in WaitFloors : Dist(j, ret.arg) >= ret.val[2]

\* the elevator of the last get_nearest_dest_floor call, and its tie data
RetElevator == elevators[ret.arg]
RetDists == { Dist(RetElevator.people[k].floor_to, RetElevator.floor_on) :
                 k \in 1..Len(RetElevator.people) }
RetMinDist == CHOOSE m \in RetDists : \A d \in RetDists : m <= d
RetTied == { k \in 1..Len(RetElevator.people) :
               Dist(RetElevator.people[k].floor_to, RetElevator.floor_on) = RetMinDist }
RetFirstTied == CHOOSE k \in RetTied : \A j \in RetTied : k <= j
\* two different destination floors share the minimum distance
RetTie ==
    /\ ret.op = "get_nearest_dest_floor"
    /\ Len(RetElevator.people) > 0
    /\ \E j, k \in RetTied :
          RetElevator.people[j].floor_to # RetElevator.people[k].floor_to

\* C4: get_nearest_dest_floor returns (t, d), t the destination of an onboard
\* passenger, d = |t - floor_on| and d the minimum distance over all onboard
\* passengers, in any passenger order; (0, 0) when nobody is onboard.
C4_NearestDestFloor ==
    ret.op = "get_nearest_dest_floor" =>
       IF Len(RetElevator.people) = 0 THEN ret.val = <<0, 0>>
       ELSE /\ \E k \in 1..Len(RetElevator.people) :
                  ret.val[1] = RetElevator.people[k].floor_to
            /\ ret.val[2] = Dist(ret.val[1], RetElevator.floor_on)
            /\ ret.val[2] = RetMinDist

\* C5: when several destinations share the minimum distance, the result is
\* the one met first in passenger order (a later equal distance never
\* replaces the incumbent).
C5_TieKeepsFirst ==
    RetTie => ret.val = <<RetElevator.people[RetFirstTied].floor_to, RetMinDist>>

\* C5 witness: a tie whose first-met destination is the upper floor, a later
\* passenger being bound for the lower one
C5_Witness ==
    /\ RetTie
    /\ RetElevator.people[RetFirstTied].floor_to > RetElevator.floor_on
    /\ ret.val[1] > RetElevator.floor_on

\* C6 (as claimed): of two destinations at the same minimum distance the
\* lowest-indexed floor is returned.
C6_LowestIndexed ==
    RetTie => ret.val[1] = RetElevator.floor_on - RetMinDist

\* C6 (amended): of two destinations at the same minimum distance the result
\* is one of the two, and it is the lower floor exactly when a passenger bound
\* for the lower floor precedes every passenger bound for the upper floor.
C6_TieByOnboardOrder ==
    RetTie =>
       LET lo == RetElevator.floor_on - RetMinDist
           hi == RetElevator.floor_on + RetMinDist
           first(t) == CHOOSE k \in RetTied :
                          /\ RetElevator.people[k].floor_to = t
                          /\ \A j \in RetTied :
                                RetElevator.people[j].floor_to = t => k <= j
       IN /\ ret.val[1] \in {lo, hi}
          /\ ret.val[2] = RetMinDist
          /\ (ret.val[1] = lo) <=> (first(lo) < first(hi))

\* C6 witness: distances {3, 3, 5}, the passenger for the upper distance-3
\* floor first, and the upper floor returned
C6_Witness ==
    /\ RetTie
    /\ RetDists = {3, 5}
    /\ Len(RetElevator.people) = 3
    /\ ret.val = <<RetElevator.floor_on + 3, 3>>

\* ---- properties of the simulation ----------------------------------------
Step(from, to) == pc = from /\ pc' = to

Ids == { p.id : p \in AllPeople }

FloorIds(fls, f) == { fls[f + 1].people[k].id : k \in 1..Len(fls[f + 1].people) }

\* onboard passengers of stopped elevators standing on floor f with floor_to = f
Alighting(f) ==
    UNION { { elevators[i].people[k] : k \in { j \in 1..Len(elevators[i].people) :
                 elevators[i].people[j].floor_on = elevators[i].people[j].floor_to } }
            : i \in { j \in 1..Len(elevators) :
                        elevators[j].stopped /\ elevators[j].floor_on = f } }

\* one of the four stop conditions of a moving elevator holds
StopCondition(e) ==
    \/ e.moving_up /\ e.floor_on = Len(floors) - 1
    \/ ~e.moving_up /\ e.floor_on = 0
    \/ \E k \in 1..Len(e.people) : e.people[k].floor_to = e.floor_on
    \/ e.floor_on \in WaitFloors

\* C1: under NearestController.update_elevators a moving elevator with none
\* of the four stop conditions keeps its direction and advances exactly one
\* floor; it becomes stopped only when one of the conditions holds.
C1_MovingContinues ==
    [][ (Step("dispatch", "exchange") /\ policy = "nearest") =>
          \A i \in 1..Len(elevators) :
             ~elevators[i].stopped =>
                /\ ~StopCondition(elevators[i]) =>
                      /\ ~elevators'[i].stopped
                      /\ elevators'[i].moving_up = elevators[i].moving_up
                      /\ elevators'[i].floor_on =
                            IF elevators[i].moving_up THEN elevators[i].floor_on + 1
                            ELSE elevators[i].floor_on - 1
                /\ elevators'[i].stopped => StopCondition(elevators[i]) ]_vars

\* C2: under NearestController.update_elevators the target of a stopped
\* elevator is a nearest onboard destination when some onboard destination is
\* at distance > 0, otherwise a nearest floor with a waiting passenger,
\* otherwise its own floor (it stays stopped where it is); targets are taken
\* from the state before any elevator moves.
C2_StoppedTarget ==
    [][ (Step("dispatch", "exchange") /\ policy = "nearest") =>
          \A i \in 1..Len(elevators) :
             elevators[i].stopped =>
                LET e == elevators[i]
                    t == elevator_decisions'[i]
                    dests == { e.people[k].floor_to : k \in 1..Len(e.people) }
                IN IF \E d \in dests : Dist(d, e.floor_on) > 0
                     THEN /\ t \in dests
                          /\ \A d \in dests : Dist(d, e.floor_on) >= Dist(t, e.floor_on)
                   ELSE IF WaitFloors # {}
                     THEN /\ t \in WaitFloors
                          /\ \A j \in WaitFloors : Dist(j, e.floor_on) >= Dist(t, e.floor_on)
                   ELSE /\ t = e.floor_on
                        /\ elevators'[i].stopped
                        /\ elevators'[i].floor_on = e.floor_on ]_vars

\* every floor holds at most capacity passengers
FloorsWithinCapacity ==
    \A i \in 1..Len(floors) : Len(floors[i].people) <= floors[i].capacity

\* the arrival step appends to floor 0 the first min(k, c) of the k people
\* created, in creation order, c being the free capacity of floor 0
ArrivalInsert ==
    Step("arrivals", "increment") =>
       LET old == floors[1].people
           new == floors'[1].people
           k == next_id' - next_id
           c == floors[1].capacity - Len(old)
           m == IF k < c THEN k ELSE c
       IN /\ Len(new) = Len(old) + m
          /\ SubSeq(new, 1, Len(old)) = old
          /\ \A j \in 1..m : new[Len(old) + j].id = next_id + j - 1

\* on a floor served by exactly one stopped elevator the exchange appends,
\* after the people who stay, the first min(k, c) of the k people alighting
ExchangeInsert ==
    Step("exchange", "departures") =>
       \A i \in 1..Len(elevators) :
          (/\ elevators[i].stopped
           /\ \A j \in 1..Len(elevators) :
                 (j # i /\ elevators[j].stopped) =>
                     elevators[j].floor_on # elevators[i].floor_on) =>
             LET f == elevators[i].floor_on
                 alight == SelectSeq(elevators[i].people,
                                     LAMBDA p : p.floor_on = p.floor_to)
                 stay == SelectSeq(floors[f + 1].people,
                                   LAMBDA p : p.id \in FloorIds(floors', f))
                 new == floors'[f + 1].people
                 c == floors[f + 1].capacity - Len(stay)
                 m == IF Len(alight) < c THEN Len(alight) ELSE c
             IN /\ Len(new) = Len(stay) + m
                /\ \A j \in 1..Len(stay) : new[j].id = stay[j].id
                /\ \A j \in 1..m : new[Len(stay) + j].id = alight[j].id

\* C7: in every state every floor holds at most capacity passengers, and an
\* insertion of k passengers into a floor with free capacity c < k adds the
\* first c of them in order and discards the rest.
C7_CapacityRespected ==
    []FloorsWithinCapacity /\ [][ArrivalInsert /\ ExchangeInsert]_vars

\* C7 witness: the person created last by the arrival step was discarded
\* because floor 0 was at capacity
C7_Witness ==
    /\ pc = "increment"
    /\ next_id > 1
    /\ (next_id - 1) \notin Ids
    /\ floors[1].capacity > 0
    /\ Len(floors[1].people) = floors[1].capacity

\* C8 (as claimed): only the ground-floor flush removes a passenger; dispatch,
\* exchange, departures and wait increment leave the set of passengers held
\* by floors and elevators unchanged, arrivals only add to it.
C8_OnlyFlushRemoves ==
    [][ /\ Step("arrivals", "increment") => Ids \subseteq Ids'
        /\ (~Step("flush", "arrivals") /\ ~Step("arrivals", "increment")) => Ids' = Ids
        /\ Step("exchange", "departures") =>
              \A f \in 0..(Len(floors) - 1) : \A p \in Alighting(f) :
                  p.id \in FloorIds(floors', f) ]_vars

\* C8 (amended): a passenger leaves the simulation only in the ground-floor
\* flush while is_leaving, or in an exchange when alighting at a floor that
\* cannot hold its occupants plus everyone alighting there; every other step
\* keeps the set of passengers, and passengers alighting at a floor with room
\* for them are on that floor afterwards.
C8_RemovedByFlushOrFullFloor ==
    [][ /\ (~Step("flush", "arrivals") /\ ~Step("arrivals", "increment")
            /\ ~Step("exchange", "departures")) => Ids' = Ids
        /\ Step("arrivals", "increment") => Ids \subseteq Ids'
        /\ Step("flush", "arrivals") =>
              /\ Ids' \subseteq Ids
              /\ Ids \ Ids' \subseteq
                    { floors[1].people[k].id : k \in { j \in 1..Len(floors[1].people) :
                                                         floors[1].people[j].is_leaving } }
        /\ Step("exchange", "departures") =>
              /\ Ids' \subseteq Ids
              /\ Ids \ Ids' \subseteq
                    UNION { { p.id : p \in Alighting(f) } : f \in 0..(Len(floors) - 1) }
              /\ \A f \in 0..(Len(floors) - 1) :
                    /\ \A p \in Alighting(f) :
                          p.id \in FloorIds(floors', f) \/ p.id \notin Ids'
                    /\ (Len(floors[f + 1].people) + Cardinality(Alighting(f))
                           <= floors[f + 1].capacity) =>
                          \A p \in Alighting(f) : p.id \in FloorIds(floors', f) ]_vars

\* C8 witness: after an exchange a passenger brought up by an elevator stands
\* on the floor at which the elevator is stopped
C8_Witness ==
    /\ pc = "departures"
    /\ \E i \in 1..Len(elevators) :
          /\ elevators[i].stopped
          /\ elevators[i].floor_on > 0
          /\ \E k \in 1..Len(floors[elevators[i].floor_on + 1].people) :
                LET p == floors[elevators[i].floor_on + 1].people[k]
                IN p.floor_to = p.floor_on /\ ~p.is_leaving

\* C9 (as claimed): at the end of a tick every passenger, on a floor or on an
\* elevator, with floor_on = floor_to has wait_time = 0.
C9_RestingHaveNoWait ==
    pc = "dispatch" =>
       \A p \in AllPeople : p.floor_on = p.floor_to => p.wait_time = 0

\* C9 (amended): in every state, under either policy, every passenger
\* standing on a floor with floor_on = floor_to has wait_time = 0.
C9_RestingOnFloorHaveNoWait ==
    \A i \in 1..Len(floors) : \A k \in 1..Len(floors[i].people) :
        floors[i].people[k].floor_on = floors[i].people[k].floor_to =>
            floors[i].people[k].wait_time = 0

\* C9 witness: at the end of a tick a passenger who rode an elevator rests on
\* an upper floor
C9_Witness ==
    /\ pc = "dispatch"
    /\ \E i \in 2..Len(floors) : \E k \in 1..Len(floors[i].people) :
          /\ floors[i].people[k].floor_on = floors[i].people[k].floor_to
          /\ ~floors[i].people[k].is_leaving

\* C10: the wait-time increment adds exactly 1 to the wait counter of every
\* passenger with floor_on # floor_to, on a floor or an elevator, and leaves
\* the counter of every passenger with floor_on = floor_to unchanged.
C10_IncrementOnlyWaiting ==
    [][ Step("increment", "dispatch") =>
          \A p \in AllPeople : \E q \in AllPeople' :
             /\ q.id = p.id
             /\ q.wait_time = IF p.floor_on # p.floor_to THEN p.wait_time + 1
                              ELSE p.wait_time ]_vars

\* C11: is_leaving never goes from true back to false, is_leaving = true
\* implies floor_to = 0 in every state, and the departure sampling leaves a
\* passenger who is already leaving entirely unchanged.
C11_LeavingMonotonic ==
    /\ [](\A p \in AllPeople : p.is_leaving => p.floor_to = 0)
    /\ [][ \A p \in AllPeople : p.is_leaving =>
              \A q \in AllPeople' : q.id = p.id =>
                  /\ q.is_leaving
                  /\ q.floor_to = 0
                  /\ Step("departures", "flush") => q = p ]_vars

\* C11 witness: the only passenger ever created has left an elevator twice
\* (at the destination, then leaving at floor 0) and, already leaving, has
\* just gone through the departure sampling on floor 0
C11_Witness ==
    /\ pc = "flush"
    /\ next_id = 2
    /\ wait_time_denom = 2
    /\ \E k \in 1..Len(floors[1].people) :
          /\ floors[1].people[k].is_leaving
          /\ floors[1].people[k].floor_on = 0

C13_ElevatorWithinFloors ==
    /\ [](\A i \in 1..Len(elevators) :
             elevators[i].floor_on \in 0..(Len(floors) - 1))
    /\ [][ \A i \in 1..Len(elevators) :
              /\ elevators[i].floor_on = 0 =>
                    elevators'[i].floor_on \in {0, 1}
              /\ elevators[i].floor_on = Len(floors) - 1 =>
                    elevators'[i].floor_on \in {Len(floors) - 2, Len(floors) - 1} ]_vars

\* C13 witness: an elevator that came down with a leaving passenger is at
\* floor 0 after a dispatch, which stopped it there
C13_Witness ==
    /\ pc = "exchange"
    /\ \E i \in 1..Len(elevators) :
          /\ elevators[i].floor_on = 0
          /\ elevators[i].stopped
          /\ \E k \in 1..Len(elevators[i].people) : elevators[i].people[k].is_leaving

\* every elevator carries at most its capacity of passengers
ElevatorsWithinCapacity ==
    \A i \in 1..Len(elevators) : Len(elevators[i].people) <= elevators[i].capacity

\* C14: in every state every elevator carries at most its capacity, and an
\* exchange boards at most the free capacity (capacity minus occupants) the
\* elevator had before the exchange.
C14_ElevatorCapacityRespected ==
    /\ []ElevatorsWithinCapacity
    /\ [][ Step("exchange", "departures") =>
              \A i \in 1..Len(elevators) :
                 LET before == { elevators[i].people[k].id :
                                    k \in 1..Len(elevators[i].people) }
                     after == { elevators'[i].people[k].id :
                                   k \in 1..Len(elevators'[i].people) }
                 IN Cardinality(after \ before) <=
                       elevators[i].capacity - Len(elevators[i].people) ]_vars

\* C14 witness: after an exchange an elevator is full and a waiting passenger
\* is left on its floor
C14_Witness ==
    /\ pc = "departures"
    /\ \E i \in 1..Len(elevators) :
          /\ elevators[i].stopped
          /\ elevators[i].capacity > 0
          /\ Len(elevators[i].people) = elevators[i].capacity
          /\ are_people_waiting(floors[elevators[i].floor_on + 1].people)

\* C15: flush_people_entering_elevator(max) removes from the floor exactly
\* the first min(max, number waiting) passengers with floor_on # floor_to and
\* returns them in arrival order; every passenger with floor_on = floor_to and
\* every waiting passenger beyond the cap stays, in unchanged relative order;
\* with max = 0 nobody is removed.
C15_FlushPeopleEntering ==
    [][ ret'.op = "flush_people_entering_elevator" =>
          LET old == floors[ret'.arg[1] + 1].people
              new == floors'[ret'.arg[1] + 1].people
              max == ret'.arg[2]
              waiting == SelectSeq(old, LAMBDA p : p.floor_on # p.floor_to)
              m == IF max < Len(waiting) THEN max ELSE Len(waiting)
              out == ret'.val
              out_ids == { out[k].id : k \in 1..Len(out) }
          IN /\ out = SubSeq(waiting, 1, m)
             /\ new = SelectSeq(old, LAMBDA p : p.id \notin out_ids)
             /\ \A i \in 1..Len(floors) :
                   i # ret'.arg[1] + 1 => floors'[i] = floors[i]
             /\ max = 0 => (out = <<>> /\ new = old) ]_vars

\* C15 witness: two passengers were taken with max = 2, over a resting
\* passenger who arrived before them and stays, and a waiting passenger beyond
\* the cap stays too
C15_Witness ==
    /\ ret.op = "flush_people_entering_elevator"
    /\ ret.arg[2] = 2
    /\ Len(ret.val) = 2
    /\ LET people == floors[ret.arg[1] + 1].people
       IN \E j, k \in 1..Len(people) :
             /\ people[j].floor_on = people[j].floor_to
             /\ people[j].id < ret.val[1].id
             /\ people[k].floor_on # people[k].floor_to
             /\ people[k].id > ret.val[2].id

\* C16: flush_people_leaving_elevator on a stopped elevator removes and
\* returns every onboard passenger with floor_to = the current floor, in
\* onboard order, the others staying onboard in unchanged order; on an
\* elevator that is not stopped it returns an empty sequence and changes
\* nothing.  The exchange changes nothing for an elevator that is not stopped,
\* nor on its floor when no stopped elevator stands there.
C16_FlushPeopleLeaving ==
    [][ /\ ret'.op = "flush_people_leaving_elevator" =>
              LET e == elevators[ret'.arg]
                  e2 == elevators'[ret'.arg]
              IN IF e.stopped
                   THEN /\ ret'.val = SelectSeq(e.people,
                                                LAMBDA p : p.floor_to = e.floor_on)
                        /\ e2 = [e EXCEPT !.people =
                                    SelectSeq(e.people,
                                              LAMBDA p : p.floor_to # e.floor_on)]
                   ELSE ret'.val = <<>> /\ e2 = e
        /\ ret'.op = "exchange_people_on_elevator" =>
              \A i \in 1..Len(elevators) :
                 ~elevators[i].stopped =>
                    /\ elevators'[i] = elevators[i]
                    /\ (\A j \in 1..Len(elevators) :
                           elevators[j].stopped =>
                              elevators[j].floor_on # elevators[i].floor_on) =>
                          floors'[elevators[i].floor_on + 1] =
                             floors[elevators[i].floor_on + 1] ]_vars

\* C16 witness: a stopped elevator has let out two passengers, in onboard
\* order, and kept another one
C16_Witness ==
    /\ ret.op = "flush_people_leaving_elevator"
    /\ elevators[ret.arg].stopped
    /\ Len(ret.val) = 2
    /\ ret.val[1].id < ret.val[2].id
    /\ ret.val[1].floor_to = elevators[ret.arg].floor_on
    /\ Len(elevators[ret.arg].people) = 1
    /\ elevators[ret.arg].people[1].floor_to # elevators[ret.arg].floor_on

\* C17: avg_wait_time is a number in every state, and an exchange after
\* which nobody has ever left an elevator leaves it at exactly 0; exchanges in
\* which nobody leaves an elevator keep it a number.
C17_AvgWaitTimeDefined ==
    /\ [](avg_wait_time.kind = "num")
    /\ [][ Step("exchange", "departures") =>
              /\ wait_time_denom' = 0 => avg_wait_time' = F64Zero
              /\ wait_time_denom' = wait_time_denom =>
                    avg_wait_time'.kind = "num" ]_vars

\* C17 witness: an exchange on a stopped elevator next to which a passenger
\* stands has been made and nobody has ever left an elevator
C17_Witness ==
    /\ pc = "departures"
    /\ wait_time_denom = 0
    /\ avg_wait_time = F64Zero
    /\ next_id > 1
    /\ \E i \in 1..Len(elevators) : elevators[i].stopped

\* C18: for every RandomController state and every increment passed to
\* upgrade, p_rational after the call is >= p_rational before it and <= 1.0.
C18_UpgradeMonotone ==
    [][ ret'.op = "upgrade" =>
          /\ p_rational' >= p_rational
          /\ p_rational' <= 100 ]_vars

C20_UpdateCapacitiesAllOrNothing ==
    [][ /\ ret'.op = "floors_update_capacities" =>
              IF \E i \in 1..Len(floors) : ret'.arg < Len(floors[i].people)
                THEN floors' = floors
                ELSE floors' = [i \in 1..Len(floors) |->
                                  [floors[i] EXCEPT !.capacity = ret'.arg]]
        /\ ret'.op = "elevators_update_capacities" =>
              IF \E i \in 1..Len(elevators) : ret'.arg < Len(elevators[i].people)
                THEN elevators' = elevators
                ELSE elevators' = [i \in 1..Len(elevators) |->
                                     [elevators[i] EXCEPT !.capacity = ret'.arg]] ]_vars

\* C20 witness: a capacity that an empty floor could take was refused because
\* another floor holds more people, and every capacity is as it was
C20_Witness ==
    /\ ret.op = "floors_update_capacities"
    /\ \E i, j \in 1..Len(floors) :
          /\ Len(floors[i].people) > ret.arg
          /\ Len(floors[j].people) = 0
          /\ ret.arg > 0
          /\ floors[j].capacity # ret.arg
          /\ floors[j].capacity = floors[i].capacity

\* C21: collect_tips returns the value tot_tips had before the call and sets
\* tot_tips to 0, changing nothing else in the building; from a building
\* with tot_tips = 0 nothing is returned; the values collected so far plus
\* tot_tips equal the tip value generated so far.  tips_collected is the sum
\* of the values returned by collect_tips, so a step that changes it or
\* lowers tot_tips is a call of collect_tips.
C21_CollectTips ==
    /\ [](tips_collected + tot_tips = tips_generated)
    /\ [][(tips_collected' # tips_collected \/ tot_tips' < tot_tips)
             => /\ tips_collected' = tips_collected + tot_tips
                /\ tot_tips' = 0
                /\ UNCHANGED <<floors, elevators, pc, next_id, policy,
                               floors_to, p_rational, elevator_decisions,
                               avg_wait_time, wait_time_denom, avg_energy,
                               tips_generated, time_step,
                   controller_num_floors>>]_vars
    /\ [][tot_tips = 0 => tips_collected' = tips_collected]_vars

\* tips were collected and new tips have been generated since
C21_Witness ==
    /\ tips_collected > 0
    /\ tot_tips > 0
    /\ tips_generated = tips_collected + tot_tips

\* the f64 x equals base + coef * n, stated on the fractions themselves
IsBasePlusLoad(x, base, coef, n) ==
    /\ x.kind = "num"
    /\ x.num * base.den * coef.den
         = x.den * (base.num * coef.den + coef.num * n * base.den)

\* the f64 x is the sum of the energies of the elevators, which are at most two
IsEnergySum(x, elevs) ==
    LET a == IF Len(elevs) >= 1 THEN get_energy_spent(elevs[1]) ELSE F64Zero
        b == IF Len(elevs) >= 2 THEN get_energy_spent(elevs[2]) ELSE F64Zero
    IN /\ x.kind = "num"
       /\ x.num * a.den * b.den = x.den * (a.num * b.den + b.num * a.den)

\* C29: Elevator::get_energy_spent is 0 for a stopped elevator, energy_up +
\* energy_coef * n for one moving up with n passengers and energy_down +
\* energy_coef * n for one moving down; the energy of the elevators of a
\* building is the sum of these values over its elevators.
C29_EnergySpent ==
    [][/\ ret'.op = "get_energy_spent"
          => LET e == elevators[ret'.arg]
                 n == Len(e.people)
                 x == ret'.val[1]
             IN IF e.stopped THEN x.kind = "num" /\ x.num = 0
                ELSE IF e.moving_up
                  THEN IsBasePlusLoad(x, e.energy_up, e.energy_coef, n)
                ELSE IsBasePlusLoad(x, e.energy_down, e.energy_coef, n)
       /\ ret'.op = "elevators_get_energy_spent"
          => /\ Len(elevators) <= 2
             /\ IsEnergySum(ret'.val[1], elevators)]_vars

\* the energy of two moving elevators with different loads was summed, with
\* energy_up, energy_down and energy_coef all different and the load counted
C29_Witness ==
    /\ ret.op = "elevators_get_energy_spent"
    /\ Len(elevators) = 2
    /\ \A i \in 1..2 : ~elevators[i].stopped
    /\ ~elevators[1].moving_up /\ elevators[2].moving_up
    /\ Len(elevators[1].people) = 2 /\ Len(elevators[2].people) = 1
    /\ elevators[1].energy_up = F64(1, 1)
    /\ elevators[1].energy_down = F64(1, 2)
    /\ elevators[1].energy_coef = F64(1, 2)
    /\ ret.val[1] = F64(3, 1)

\* the passengers at rest among people
Resting(people) == SelectSeq(people, LAMBDA q : q.floor_on = q.floor_to)

\* numerator and denominator of the product of 1 - p_out over people
RECURSIVE StayNum(_)
StayNum(people) ==
    IF Len(people) = 0 THEN 1
    ELSE (people[1].p_out.den - people[1].p_out.num) * StayNum(Tail(people))

RECURSIVE StayDen(_)
StayDen(people) ==
    IF Len(people) = 0 THEN 1
    ELSE people[1].p_out.den * StayDen(Tail(people))

\* C30: Floor::get_p_out is 1 minus the product of 1 - p_out over the
\* passengers at rest on the floor (floor_on = floor_to), whatever their
\* order, 0 for an empty floor, and does not depend on the passengers of the
\* floor who are waiting for an elevator.
C30_POutOverResting ==
    [][ret'.op = "get_p_out"
         => LET resting == Resting(floors[ret'.arg + 1].people)
                x == ret'.val[1]
            IN x = F64(StayDen(resting) - StayNum(resting), StayDen(resting))]_vars

\* the position in people of the person with this id
IndexOfId(people, id) == CHOOSE k \in 1..Len(people) : people[k].id = id

\* the people of kept, in their order, are people of before in the same order
KeepsOrder(before, kept) ==
    \A a \in 1..Len(kept), b \in 1..Len(kept) :
        a < b => /\ \E k \in 1..Len(before) : before[k] = kept[a]
                 /\ \E k \in 1..Len(before) : before[k] = kept[b]
                 /\ IndexOfId(before, kept[a].id) < IndexOfId(before, kept[b].id)

\* C27: the flush of the ground floor removes from floor 0 exactly the
\* passengers with is_leaving set and returns them; those who are not leaving
\* stay on floor 0 in their order; the other floors and the elevators are
\* not changed.
C27_FlushFirstFloor ==
    [][ret'.op = "flush_first_floor"
         => LET before == floors[1].people
                after == floors'[1].people
                out == ret'.val
            IN /\ \A k \in 1..Len(before) :
                     IF before[k].is_leaving
                       THEN /\ \E j \in 1..Len(out) : out[j] = before[k]
                            /\ ~\E j \in 1..Len(after) : after[j].id = before[k].id
                       ELSE /\ \E j \in 1..Len(after) : after[j] = before[k]
                            /\ ~\E j \in 1..Len(out) : out[j].id = before[k].id
               /\ Len(out) + Len(after) = Len(before)
               /\ KeepsOrder(before, after)
               /\ KeepsOrder(before, out)
               /\ floors'[1].capacity = floors[1].capacity
               /\ Len(floors') = Len(floors)
               /\ \A i \in 2..Len(floors) : floors'[i] = floors[i]
               /\ elevators' = elevators]_vars

\* two leaving people were returned from between people who stayed, while a
\* leaving person stands on floor 1 and a passenger rides the elevator
C27_Witness ==
    /\ ret.op = "flush_first_floor"
    /\ Len(ret.val) = 2
    /\ Len(floors[1].people) = 1
    /\ ret.val[1].id < floors[1].people[1].id
    /\ floors[1].people[1].id < ret.val[2].id
    /\ Len(floors) >= 2
    /\ \E k \in 1..Len(floors[2].people) : floors[2].people[k].is_leaving
    /\ \E i \in 1..Len(elevators) : elevators[i].people # <<>>

\* C26: the departure step changes only passengers at rest on a floor who are
\* not yet leaving, and only by setting floor_to to 0 and is_leaving to true;
\* nobody is removed or moved, so every floor keeps its people in their
\* order; waiting passengers, passengers already leaving and the passengers
\* of the elevators are unchanged.
C26_DeparturesFrame ==
    [][Step("departures", "flush")
         => /\ elevators' = elevators
            /\ Len(floors') = Len(floors)
            /\ \A i \in 1..Len(floors) :
                  /\ floors'[i].capacity = floors[i].capacity
                  /\ Len(floors'[i].people) = Len(floors[i].people)
                  /\ \A k \in 1..Len(floors[i].people) :
                        LET p == floors[i].people[k]
                            q == floors'[i].people[k]
                        IN \/ q = p
                           \/ /\ p.floor_on = p.floor_to
                              /\ ~p.is_leaving
                              /\ q = [p EXCEPT !.floor_to = 0,
                                               !.is_leaving = TRUE]]_vars

\* after a departure step: a passenger of an upper floor has just decided to
\* leave while another passenger is waiting on a floor and a third one rides
\* an elevator
C26_Witness ==
    /\ pc = "flush"
    /\ \E i \in 2..Len(floors) : \E k \in 1..Len(floors[i].people) :
          LET p == floors[i].people[k]
          IN p.is_leaving /\ p.floor_to = 0 /\ p.wait_time = 0
    /\ \E i \in 1..Len(floors) : \E k \in 1..Len(floors[i].people) :
          LET p == floors[i].people[k]
          IN ~p.is_leaving /\ p.floor_on # p.floor_to
    /\ \E i \in 1..Len(elevators) : elevators[i].people # <<>>

\* C28: the arrival step only appends passengers to the end of floor 0; each
\* of them has floor_on = 0, a floor_to among the floors of the building,
\* is_leaving false and wait_time 0; the people already on floor 0, the other
\* floors and the elevators are unchanged, and at most as many passengers are
\* added as floor 0 had free capacity.
C28_ArrivalsFrame ==
    [][Step("arrivals", "increment")
         => LET before == floors[1].people
                after == floors'[1].people
            IN /\ elevators' = elevators
               /\ Len(floors') = Len(floors)
               /\ \A i \in 2..Len(floors) : floors'[i] = floors[i]
               /\ floors'[1].capacity = floors[1].capacity
               /\ Len(after) >= Len(before)
               /\ SubSeq(after, 1, Len(before)) = before
               /\ Len(after) - Len(before) <= floors[1].capacity - Len(before)
               /\ \A k \in (Len(before) + 1)..Len(after) :
                     /\ after[k].floor_on = 0
                     /\ after[k].floor_to \in 0..(Len(floors) - 1)
                     /\ ~after[k].is_leaving
                     /\ after[k].wait_time = 0]_vars

\* after an arrival step: floor 0 is full, its last person has just arrived
\* behind a person who was already there, and one more arrival was dropped
C28_Witness ==
    /\ pc = "increment"
    /\ Len(floors[1].people) >= 2
    /\ Len(floors[1].people) = floors[1].capacity
    /\ floors[1].people[1].wait_time > 0
    /\ floors[1].people[Len(floors[1].people)].id = next_id - 2
    /\ floors[1].people[Len(floors[1].people)].wait_time = 0

\* C25: RandomController::update_elevators neither replaces nor clears the
\* cached destination of an elevator whose floor, after the move of the call,
\* differs from it, and clears it (None) in the call in which the floor of
\* the elevator becomes equal to it; so after every call no cache entry
\* equals the floor of its elevator.
C25_CachedTargetKept ==
    /\ [](pc = "random_fn"
            => \A i \in 1..Len(elevators) :
                  floors_to[i] = None
                  \/ Unwrap(floors_to[i]) # elevators[i].floor_on)
    /\ [][ret'.op = "update_elevators"
            => \A i \in 1..Len(floors_to) :
                  floors_to[i] # None
                  => IF elevators'[i].floor_on = Unwrap(floors_to[i])
                       THEN floors_to'[i] = None
                       ELSE floors_to'[i] = floors_to[i]]_vars

\* after a call the cached destination is still three floors below an
\* elevator that is on its way down to it
C25_Witness ==
    /\ pc = "random_fn"
    /\ ret.op = "update_elevators"
    /\ floors_to[1] # None
    /\ elevators[1].floor_on = Unwrap(floors_to[1]) + 3
    /\ ~elevators[1].stopped
    /\ ~elevators[1].moving_up

\* C23: construction is refused, with no Building and no controller made,
\* whenever the arrival rate p_in given to Building::from is not positive or
\* the p_rational given to RandomController::from is outside [0, 1]; upgrade
\* is refused in the same way whenever the p_rational it results in is
\* outside [0, 1].  The refusal is the panic of unwrap on the error of the
\* sampler.
C23_ConstructionRefused ==
    [][/\ (ret'.op = "building_from" /\ ret'.arg[3] <= 0 /\ pc = "new")
          => /\ pc' = "panic"
             /\ ret'.val = <<"panic">>
             /\ floors' = <<>> /\ elevators' = <<>>
       /\ (ret'.op = "random_controller_from" /\ pc = "built"
              /\ (ret'.arg < 0 \/ ret'.arg > 100))
          => /\ pc' = "panic"
             /\ ret'.val = <<"panic">>
             /\ policy' = "none" /\ floors_to' = <<>>
       /\ (pc = "fn" /\ policy = "random" /\ p_rational' # p_rational
              /\ (p_rational' < 0 \/ p_rational' > 100))
          => /\ pc' = "panic"
             /\ ret'.op = "upgrade_panic"]_vars

\* a building was made with a positive rate and RandomController::from has
\* refused a p_rational above 1
C23_Witness ==
    /\ pc = "panic"
    /\ ret.op = "random_controller_from"
    /\ ret.arg > 100
    /\ floors # <<>>
    /\ policy = "none"

\* nobody is in the building, the elevator is stopped on floor 0 and the
\* averages and the tips are 0
Quiet ==
    /\ AllPeople = {}
    /\ \A i \in 1..Len(elevators) :
          elevators[i].stopped /\ elevators[i].floor_on = 0
    /\ avg_energy = F64Zero
    /\ avg_wait_time = F64Zero
    /\ tot_tips = 0

\* C22 as stated: a building of 1 floor above the ground floor and 1 elevator
\* with p_in = 0 is constructed and run for 50 ticks under NearestController,
\* and in each of these ticks there is no passenger, the elevator is stopped
\* on floor 0, and avg_energy, avg_wait_time and tot_tips are 0.
C22_ZeroRateRun ==
    /\ [][(ret'.op = "building_from" /\ ret'.arg = <<2, 1, 0>>)
            => ret'.val = <<"ok">> /\ pc' = "built"]_vars
    /\ []((ret.op = "building_from" /\ ret.arg = <<2, 1, 0>>
             /\ pc \notin {"new", "built"})
            => Quiet)

\* C22, amended: that building cannot be constructed with p_in = 0, since
\* Building::from panics on the rate; constructed with a positive p_in and
\* run for 50 ticks under NearestController, in every tick before the first
\* passenger arrives there is no passenger, the elevator is stopped on
\* floor 0, and avg_energy, avg_wait_time and tot_tips are 0.
C22_QuietBeforeFirstArrival ==
    /\ [][(ret'.op = "building_from" /\ ret'.arg = <<2, 1, 0>>)
            => ret'.val = <<"panic">> /\ pc' = "panic" /\ floors' = <<>>]_vars
    /\ []((ret.op = "building_from" /\ ret.val = <<"ok">> /\ ret.arg[3] > 0
             /\ next_id = 1)
            => Quiet)

\* 50 ticks have been run on the building and nobody has arrived yet
C22_Witness ==
    /\ ret.op = "building_from"
    /\ ret.val = <<"ok">>
    /\ policy = "nearest"
    /\ time_step = MaxTicks
    /\ next_id = 1
    /\ Len(floors) = 2 /\ Len(elevators) = 1

\* ---- the order of alighting and boarding in an exchange --------------------
\* the ids of the people in a sequence
IdsOf(people) == { people[k].id : k \in 1..Len(people) }

\* the number of onboard passengers of e that are on their destination floor
NumArrived(e) ==
    Cardinality({ k \in 1..Len(e.people) : e.people[k].floor_on = e.people[k].floor_to })

\* the number of people waiting for an elevator on a floor
NumWaiting(floor) ==
    Cardinality({ k \in 1..Len(floor.people) :
                    floor.people[k].floor_on # floor.people[k].floor_to })

\* elevator i is the only stopped elevator on its floor
AloneOnFloor(i) ==
    \A j \in 1..Len(elevators) :
       (j # i /\ elevators[j].stopped) => elevators[j].floor_on # elevators[i].floor_on

\* C31: in the exchange for a stopped elevator the passengers who arrived
\* alight before the waiting passengers are pulled from the floor, so the
\* number boarding is the smaller of the number waiting and the free capacity
\* after alighting: seats freed in this exchange are taken in this exchange.
C31_BoardAfterAlighting ==
    [][ Step("exchange", "departures") =>
          \A i \in 1..Len(elevators) :
             (elevators[i].stopped /\ AloneOnFloor(i)) =>
                LET e == elevators[i]
                    free == (e.capacity - Len(e.people)) + NumArrived(e)
                    waiting == NumWaiting(floors[e.floor_on + 1])
                    boarded == IdsOf(elevators'[i].people) \ IdsOf(e.people)
                IN Cardinality(boarded) = IF waiting < free THEN waiting ELSE free ]_vars

\* the cap on boarding is the free capacity the elevator has before anyone
\* alights: Building::exchange_people_on_elevator pulls from the floor first
C31_BoardBeforeAlighting ==
    [][ Step("exchange", "departures") =>
          \A i \in 1..Len(elevators) :
             (elevators[i].stopped /\ AloneOnFloor(i)) =>
                LET e == elevators[i]
                    free == e.capacity - Len(e.people)
                    waiting == NumWaiting(floors[e.floor_on + 1])
                    boarded == IdsOf(elevators'[i].people) \ IdsOf(e.people)
                IN Cardinality(boarded) = IF waiting < free THEN waiting ELSE free ]_vars

\* ---- the running average of the wait times ---------------------------------
\* the onboard passengers of stopped elevators that are on their destination
AllAlighting == UNION { Alighting(f) : f \in 0..(Len(floors) - 1) }

\* the sum of the wait counters of a set of people
RECURSIVE SumWaitTimes(_)
SumWaitTimes(people) ==
    IF people = {} THEN 0
    ELSE LET p == CHOOSE q \in people : TRUE
         IN p.wait_time + SumWaitTimes(people \ {p})

\* an exchange is made: the exchange step of a tick, or a call of
\* exchange_people_on_elevator
Exchanged ==
    \/ Step("exchange", "departures")
    \/ ret'.op = "exchange_people_on_elevator" /\ pc' = pc

NearestOf(fs, f) == { t \in fs : \A u \in fs : Dist(t, f) <= Dist(u, f) }

\* the targets C33 gives to elevator e on a successful rational trial
RationalTargets(e) ==
    LET dests == { e.people[k].floor_to : k \in 1..Len(e.people) }
    IN IF ~e.stopped THEN {e.floor_on}
       ELSE IF dests # {} /\ e.floor_on \notin dests THEN NearestOf(dests, e.floor_on)
       ELSE IF WaitFloors # {} /\ e.floor_on \notin WaitFloors
         THEN NearestOf(WaitFloors, e.floor_on)
       ELSE {e.floor_on}

\* elevator i makes the move of update_elevators for the target t: it stops
\* where it is when t is its floor, else it moves one floor toward t; the
\* cache entry is cleared when it is on t after the move
MovesFor(i, t) ==
    LET e == elevators[i]
        n == elevators'[i]
    IN /\ IF t = e.floor_on THEN n.stopped /\ n.floor_on = e.floor_on
          ELSE /\ ~n.stopped
               /\ n.moving_up = (t > e.floor_on)
               /\ n.floor_on = IF t > e.floor_on THEN e.floor_on + 1
                               ELSE e.floor_on - 1
       /\ floors_to'[i] = IF n.floor_on = t THEN None ELSE Some(t)

\* the dispatch step of a tick under the RandomController
RandomDispatch == Step("dispatch", "exchange") /\ policy = "random"

\* C33: in RandomController::update_floors_to an elevator with no cached
\* target whose rational trial succeeds gets, when stopped, the nearest
\* onboard destination if its distance is > 0, else the nearest waiting floor
\* if its distance is > 0, else its own floor; when not stopped it gets its
\* own floor, and that update_elevators call stops it without moving it.
C33_RationalTarget ==
    [][ RandomDispatch =>
          \A i \in 1..Len(elevators) :
             (floors_to[i] = None /\ elevator_decisions'[i].rational) =>
                /\ \E t \in RationalTargets(elevators[i]) : MovesFor(i, t)
                /\ ~elevators[i].stopped =>
                      /\ elevators'[i].stopped
                      /\ elevators'[i].floor_on = elevators[i].floor_on ]_vars

\* what the code does: the nearest waiting floor is what get_nearest_wait_floor
\* returns, which overlooks a passenger waiting on the floor of the elevator
\* when someone waits above it
C33_RationalTargetAsComputed ==
    [][ RandomDispatch =>
          \A i \in 1..Len(elevators) :
             (floors_to[i] = None /\ elevator_decisions'[i].rational) =>
                LET e == elevators[i]
                    nd == get_nearest_dest_floor(e)
                    nw == get_nearest_wait_floor(floors, e.floor_on)
                IN /\ MovesFor(i, IF ~e.stopped THEN e.floor_on
                                  ELSE IF nd[2] > 0 THEN nd[1]
                                  ELSE IF nw[2] > 0 THEN nw[1]
                                  ELSE e.floor_on)
                   /\ ~e.stopped =>
                         /\ elevators'[i].stopped
                         /\ elevators'[i].floor_on = e.floor_on
                   /\ (e.stopped /\ Len(e.people) > 0) =>
                         /\ nd[1] \in NearestOf({ e.people[k].floor_to :
                                                    k \in 1..Len(e.people) }, e.floor_on)
                         /\ nd[2] > 0 ]_vars

\* ---- the cache of the RandomController when the building grows -------------
\* the cache update_floors_to leaves for some draws
CachesAfterUpdate ==
    { update_floors_to(floors_to, floors, elevators, draws) : draws \in RandomDraws }

\* every entry of a cache is a floor of the building, and there is one entry
\* for every elevator
FullValidCache(cache) ==
    /\ Len(cache) = Len(elevators)
    /\ \A i \in 1..Len(cache) :
          /\ cache[i] # None
          /\ Unwrap(cache[i]) \in 0..(Len(floors) - 1)

\* C34: after RandomController::update_floors_to every elevator has a cached
\* target, which is a floor index below the number of floors, so that
\* update_elevators and clear_floors_to unwrap no None; this holds on the
\* first update_elevators after floors or elevators were appended as well:
\* the cache then has one entry per elevator and the sampler draws from
\* [0, new number of floors).
C34_CacheFullAndValid ==
    /\ []((policy = "random" /\ pc \in {"grow_fn", "random_fn"})
            => \A cache \in CachesAfterUpdate : FullValidCache(cache))
    /\ [][ret'.op = "update_elevators"
            => /\ Len(floors_to') = Len(elevators')
               /\ controller_num_floors' = Len(floors')
               /\ \A i \in 1..Len(floors_to') :
                     floors_to'[i] = None
                     \/ Unwrap(floors_to'[i]) \in 0..(Len(floors') - 1)]_vars

\* C34 witness: after two floors and an elevator were appended, the first
\* update_elevators call has given the new elevator a target and set it off
\* for the new top floor
C34_Witness ==
    /\ pc = "grow_fn"
    /\ ret.op = "update_elevators"
    /\ Len(floors) = 4
    /\ Len(elevators) = 2
    /\ Len(floors_to) = 2
    /\ floors_to[2] = Some(3)
    /\ elevators[2].floor_on = 1
    /\ elevators[2].moving_up
    /\ controller_num_floors = 4

\* ---- where the passengers are ----------------------------------------------
\* the places that hold a passenger with a given id: floor slots and
\* elevator slots
HoldersOf(id) ==
    UNION { { <<"floor", i, k>> : k \in { j \in 1..Len(floors[i].people) :
                                            floors[i].people[j].id = id } }
            : i \in 1..Len(floors) }
    \cup
    UNION { { <<"elevator", i, k>> : k \in { j \in 1..Len(elevators[i].people) :
                                               elevators[i].people[j].id = id } }
            : i \in 1..Len(elevators) }

\* C35: in every reachable state every passenger held by floor i has
\* floor_on = i, every passenger held by an elevator has the floor_on of the
\* elevator, and no passenger is held by two containers (or twice by one).
C35_LocationConsistent ==
    /\ \A i \in 1..Len(floors) : \A k \in 1..Len(floors[i].people) :
          floors[i].people[k].floor_on = i - 1
    /\ \A i \in 1..Len(elevators) : \A k \in 1..Len(elevators[i].people) :
          elevators[i].people[k].floor_on = elevators[i].floor_on
    /\ \A id \in 1..(next_id - 1) : Cardinality(HoldersOf(id)) <= 1

\* C35 witness: an elevator is moving between floors above the ground floor
\* with a passenger onboard while another passenger stands on a floor
C35_Witness ==
    /\ pc = "exchange"
    /\ ~elevators[1].stopped
    /\ elevators[1].floor_on > 0
    /\ Len(elevators[1].people) > 0
    /\ \E i \in 1..Len(floors) : Len(floors[i].people) > 0

\* ---- everybody is brought to their floor ----------------------------------
\* nobody is onboard and everybody on a floor is on their destination floor
Delivered ==
    /\ \A i \in 1..Len(elevators) : elevators[i].people = <<>>
    /\ \A p \in AllPeople : p.floor_on = p.floor_to

\* every elevator is stopped
AllStopped == \A i \in 1..Len(elevators) : elevators[i].stopped

\* C36: under the NearestController, in a building with at least one
\* elevator, when nobody arrives any more and nobody decides to leave any
\* more, every passenger who is not on their destination floor eventually
\* stands on it or has left through the ground-floor flush (nobody leaves the
\* building in any other step), and from then on every elevator is stopped
\* and stays on its floor.
C36_EveryoneDelivered ==
    /\ <>[](Delivered /\ AllStopped)
    /\ [][ (Delivered /\ AllStopped) =>
              \A i \in 1..Len(elevators) :
                 elevators'[i].floor_on = elevators[i].floor_on ]_vars
    /\ [][ Ids' # Ids => Step("flush", "arrivals") ]_vars

\* the people who are in the building before a step and not after it were
\* onboard a stopped elevator on their destination floor, and that floor is
\* full after the step
DroppedOnAlighting ==
    \A id \in Ids \ Ids' :
       \E i \in 1..Len(elevators) :
          /\ elevators[i].stopped
          /\ \E k \in 1..Len(elevators[i].people) :
                /\ elevators[i].people[k].id = id
                /\ elevators[i].people[k].floor_to = elevators[i].floor_on
          /\ Len(floors'[elevators[i].floor_on + 1].people)
                >= floors[elevators[i].floor_on + 1].capacity

\* C36 as amended: under the NearestController, in a building whose
\* elevators all have a positive capacity, when nobody arrives any more and
\* nobody decides to leave any more, every passenger who is not on their
\* destination floor eventually stands on it, has left through the
\* ground-floor flush, or was dropped on alighting onto a full floor, and from
\* then on every elevator is stopped and stays on its floor.
C36_DeliveredOrDropped ==
    /\ (\A i \in 1..Len(elevators) : elevators[i].capacity > 0)
          => <>[](Delivered /\ AllStopped)
    /\ [][ (Delivered /\ AllStopped) =>
              \A i \in 1..Len(elevators) :
                 elevators'[i].floor_on = elevators[i].floor_on ]_vars
    /\ [][ Ids' # Ids =>
              \/ Step("flush", "arrivals")
              \/ Step("exchange", "departures") /\ DroppedOnAlighting ]_vars

\* C36 witness: two passengers were carried and have alighted, one of them is
\* still in the building, everybody is on their floor and the elevator rests
C36_Witness ==
    /\ pc = "dispatch"
    /\ wait_time_denom = 2
    /\ Ids # {}
    /\ Delivered /\ AllStopped
    /\ elevators[1].floor_on > 0


OnTarget(i) == i <= Len(floors_to) /\ floors_to[i] = None

\* C38: under the RandomController an elevator that has reached its target in
\* update_elevators is stopped there, and the exchange step of the same tick,
\* which comes before the next target is chosen, takes off every passenger
\* bound for that floor.
C38_StoppedOnTarget ==
    /\ [](pc = "exchange" /\ policy = "random"
            => \A i \in 1..Len(elevators) : OnTarget(i) => elevators[i].stopped)
    /\ [][ (Step("exchange", "departures") /\ policy = "random")
            => \A i \in 1..Len(elevators) :
                  OnTarget(i)
                  => \A k \in 1..Len(elevators'[i].people) :
                        elevators'[i].people[k].floor_to # elevators[i].floor_on ]_vars

\* what the code does: the elevator that was moved onto its target is not
\* stopped, and is stopped on its target only when the target was its floor
\* before the call
C38_StoppedIfNotMoved ==
    [][ RandomDispatch
         => \A i \in 1..Len(elevators) :
               (i <= Len(floors_to') /\ floors_to'[i] = None)
               => elevators'[i].stopped
                    = (elevators'[i].floor_on = elevators[i].floor_on) ]_vars


\* ---- leaving through the ground floor -------------------------------------
\* the ids of the people on floor 0 who are leaving
LeavingOnGround(fls) ==
    { fls[1].people[k].id : k \in { j \in 1..Len(fls[1].people) :
                                       fls[1].people[j].is_leaving } }

\* the ids of the people onboard
Onboard == UNION { IdsOf(elevators[i].people) : i \in 1..Len(elevators) }

\* C39: in a tick, a passenger who is leaving and alights onto floor 0 in the
\* exchange step, and a passenger resting on floor 0 who decides to leave in
\* the departure step, both stay on floor 0 as leaving until the ground-floor
\* flush of that tick, which removes them from the building; when the
\* arrivals are generated nobody on floor 0 is leaving.
C39_LeaversFlushedSameTick ==
    /\ [](pc = "arrivals" => LeavingOnGround(floors) = {})
    /\ [][ Step("exchange", "departures")
            => (IdsOf(floors'[1].people) \cap Onboard) \subseteq LeavingOnGround(floors')
       ]_vars
    /\ [][ Step("departures", "flush")
            => LeavingOnGround(floors) \subseteq LeavingOnGround(floors') ]_vars
    /\ [][ Step("flush", "arrivals")
            => /\ LeavingOnGround(floors) \cap Ids' = {}
               /\ Ids \ Ids' = LeavingOnGround(floors) ]_vars

\* C39 witness: before the flush of a tick the two people ever made are on
\* floor 0 and leaving; one of them rode up and down again and has alighted
\* in this tick, the other never rode and has decided to leave in this tick
C39_Witness ==
    /\ pc = "flush"
    /\ next_id = 3
    /\ wait_time_denom = 2
    /\ Cardinality(LeavingOnGround(floors)) = 2

====
